---- MODULE Spec2Model ----
(***************************************************************************)
(* Apple Pay proof of concept: the browser-side payment-session controller *)
(* (src/src/app.js, class ApplePayApp) together with the wallet runtime    *)
(* it drives, and the gateway translator of the backend                    *)
(* (src/server/services/authorizeNet.js).                                  *)
(*                                                                         *)
(* Strings that the code trims or slices are sequences of one-character    *)
(* strings.  Every handler of the controller is one atomic action: the     *)
(* browser runs a handler to completion (or to its first await) before it  *)
(* runs the next one.                                                      *)
(***************************************************************************)
EXTENDS Integers, Sequences, FiniteSets, TLC

\* Number of wallet sessions one run of the page may construct.
MaxSessions == 2

NULL == 0

SessionIds == 1..MaxSessions

VARIABLES
    userId,           \* this.userId
    merchantId,       \* this.merchantId
    configLoaded,     \* init() has awaited loadConfig() and attached the click handlers
    applePaySession,  \* this.applePaySession: NULL or the id of a wallet session
    isInitiating,     \* this.isInitiating
    wallet,           \* the wallet runtime's view of every session constructed so far
    nextId,           \* identity of the next ApplePaySession object
    timers,           \* pending 2000 ms guard-reset timers, named by the attempt that armed them
    valPending,       \* POST /api/applepay/validate calls in flight, named by the issuing session
    procPending,      \* POST /api/applepay/process calls in flight, named by the issuing session
    valFired,         \* the sessions whose onvalidatemerchant callback has fired
    last,             \* the handler that ran last and the calls it made, in order
    txn,              \* one call of the backend under study: its input, and for a gateway call the answer
    txnResult         \* how far that call has come: what it did, returned, threw or answered

vars == <<userId, merchantId, configLoaded, applePaySession, isInitiating,
          wallet, nextId, timers, valPending, procPending, valFired, last,
          txn, txnResult>>

----------------------------------------------------------------------------
\* Strings

Whitespace == {" "}

RECURSIVE TrimLeft(_)
TrimLeft(s) ==
    IF s # <<>> /\ Head(s) \in Whitespace THEN TrimLeft(Tail(s)) ELSE s

RECURSIVE TrimRight(_)
TrimRight(s) ==
    IF s # <<>> /\ s[Len(s)] \in Whitespace
    THEN TrimRight(SubSeq(s, 1, Len(s) - 1))
    ELSE s

\* String.prototype.trim
Trim(s) == TrimRight(TrimLeft(s))

\* What the user can type into the user id field.
UserIdInputs == {<<>>, <<" ">>, <<"u">>, <<" ", "u", " ">>}

\* What GET /api/applepay/config can deliver as merchantId.
MerchantIdValues == {<<>>, <<"m">>}

----------------------------------------------------------------------------
\* The record of one call made by a handler: the callee, the session it is
\* made on (NULL for none), a status or message kind, and a merchant session.

Call(c, s, a, m) == [call |-> c, sid |-> s, arg |-> a, ms |-> m]

Message(kind) == Call("showStatusMessage", NULL, kind, NULL)

Calls(h) == {h[i] : i \in 1..Len(h)}

CallsNamed(h, c) == {i \in 1..Len(h) : h[i].call = c}

Ran(op, s, outcome, calls) ==
    [op |-> op, sid |-> s, outcome |-> outcome, calls |-> calls]

----------------------------------------------------------------------------
\* The wallet runtime (ApplePaySession objects).

\* A session is "none" until it is constructed, "created" until begin(), then
\* live; "dismissed" once its sheet is gone and its oncancel is still to run;
\* "closed" when it is over (aborted, cancelled, completed, or never begun).
Live == {"active", "validating", "validated", "authorized"}

NoSession == "none"

\* session.abort(): accepted by a live session, an exception otherwise.
AbortThrows(w, s) == w[s] \notin Live

Abort(w, s) ==
    IF AbortThrows(w, s) THEN w ELSE [w EXCEPT ![s] = "closed"]

\* session.completeMerchantValidation(ms): accepted only while the session
\* waits for its merchant validation.
CompleteMerchantValidationThrows(w, s) == w[s] # "validating"

CompleteMerchantValidation(w, s, m) ==
    IF CompleteMerchantValidationThrows(w, s) THEN w
    ELSE [w EXCEPT ![s] = "validated"]

\* session.completePayment(status): accepted only after the authorization.
CompletePaymentThrows(w, s) == w[s] # "authorized"

CompletePayment(w, s, status) ==
    IF CompletePaymentThrows(w, s) THEN w
    ELSE [w EXCEPT ![s] = "closed"]

----------------------------------------------------------------------------
Init ==
    /\ userId = <<>>
    /\ merchantId = <<>>
    /\ configLoaded = FALSE
    /\ applePaySession = NULL
    /\ isInitiating = FALSE
    /\ wallet = [s \in SessionIds |-> NoSession]
    /\ nextId = 1
    /\ timers = {}
    /\ valPending = {}
    /\ procPending = {}
    /\ valFired = {}
    /\ last = Ran("constructor", NULL, "done", <<>>)
    /\ txn = <<>>
    /\ txnResult = <<>>

\* loadConfig: merchantId is taken from the answer when it is truthy; a failed
\* fetch falls back to the built-in default.
DefaultMerchantId == <<"m">>

LoadConfig(answered, m) ==
    /\ ~configLoaded
    /\ configLoaded' = TRUE
    /\ merchantId' = IF answered
                     THEN (IF m # <<>> THEN m ELSE merchantId)
                     ELSE (IF merchantId = <<>> THEN DefaultMerchantId ELSE merchantId)
    /\ last' = Ran("loadConfig", NULL, IF answered THEN "loaded" ELSE "default", <<>>)
    /\ UNCHANGED <<userId, applePaySession, isInitiating, wallet, nextId,
                   timers, valPending, procPending, valFired,
                   txn, txnResult>>

\* The input listener of the user id field, and generateUserId.
SetUserId(v) ==
    /\ userId' = Trim(v)
    /\ last' = Ran("setUserId", NULL, "done", <<>>)
    /\ UNCHANGED <<merchantId, configLoaded, applePaySession, isInitiating, wallet,
                   nextId, timers, valPending, procPending, valFired,
                   txn, txnResult>>

----------------------------------------------------------------------------
\* initiateApplePay

\* The sessions whose handler issued a fetch of the path among the calls.
Posted(calls, path) ==
    {calls[i].sid : i \in {j \in CallsNamed(calls, "fetch") : calls[j].arg = path}}

\* The value this.applePaySession holds after the assignments among the calls.
RefAfter(ref, calls) ==
    LET assigns == CallsNamed(calls, "applePaySession=")
    IN  IF assigns = {} THEN ref
        ELSE calls[CHOOSE i \in assigns : \A j \in assigns : j <= i].sid

Assign(s) == Call("applePaySession=", s, "", NULL)

\* if (this.isInitiating) return;
AlreadyInitiating_off == FALSE

AlreadyInitiating == isInitiating

\* !this.userId || this.userId.trim() === ''
UserIdMissing_off == FALSE

UserIdMissing == userId = <<>> \/ Trim(userId) = <<>>

\* !this.merchantId || this.merchantId.trim() === ''
MerchantIdMissing_off == FALSE

MerchantIdMissing == merchantId = <<>> \/ Trim(merchantId) = <<>>

\* The block "if (this.applePaySession) { try abort; this.applePaySession = null }".
AbortExisting_skipped(ref, w) == [wallet |-> w, calls |-> <<>>]

AbortExisting(ref, w) ==
    IF ref = NULL
    THEN [wallet |-> w, calls |-> <<>>]
    ELSE [wallet |-> Abort(w, ref),
          calls  |-> << Call("abort", ref, IF AbortThrows(w, ref) THEN "throws" ELSE "ok", NULL),
                        Assign(NULL) >>]

\* setTimeout(..., 2000) after begin() has returned.
ArmTimer_never(t, s) == t

ArmTimer(t, s) == t \cup {s}

\* What begin() and the lines after it leave behind for session s.
BeginSession_eager(w, s) ==
    [wallet |-> [w EXCEPT ![s] = "active"],
     calls  |-> << Call("begin", s, "ok", NULL),
                   Call("fetch", s, "/api/applepay/process", NULL),
                   Call("setTimeout", s, "2000", NULL) >>]

BeginSession(w, s) ==
    [wallet |-> [w EXCEPT ![s] = "active"],
     calls  |-> << Call("begin", s, "ok", NULL), Call("setTimeout", s, "2000", NULL) >>]

initiateApplePay(constructOk, beginOk) ==
    /\ configLoaded
    /\ nextId <= MaxSessions
    /\ IF AlreadyInitiating
       THEN /\ last' = Ran("initiateApplePay", NULL, "ignored", <<>>)
            /\ UNCHANGED <<applePaySession, isInitiating, wallet, nextId, timers>>
       ELSE IF UserIdMissing
       THEN /\ last' = Ran("initiateApplePay", NULL, "no_user_id", <<Message("error")>>)
            /\ UNCHANGED <<applePaySession, isInitiating, wallet, nextId, timers>>
       ELSE LET old == AbortExisting(applePaySession, wallet)
                s   == nextId
            IN  IF MerchantIdMissing
                THEN LET calls == old.calls \o <<Message("error")>>
                     IN  /\ applePaySession' = RefAfter(applePaySession, calls)
                         /\ isInitiating' = FALSE
                         /\ wallet' = old.wallet
                         /\ last' = Ran("initiateApplePay", NULL, "no_merchant_id", calls)
                         /\ UNCHANGED <<nextId, timers>>
                ELSE IF ~constructOk
                THEN LET calls == old.calls
                                  \o <<Call("new ApplePaySession", NULL, "throws", NULL),
                                       Message("error")>>
                     IN  /\ applePaySession' = RefAfter(applePaySession, calls)
                         /\ isInitiating' = FALSE
                         /\ wallet' = old.wallet
                         /\ last' = Ran("initiateApplePay", NULL, "construct_failed", calls)
                         /\ UNCHANGED <<nextId, timers>>
                ELSE IF ~beginOk
                THEN LET calls == old.calls
                                  \o <<Call("new ApplePaySession", s, "ok", NULL), Assign(s),
                                       Call("begin", s, "throws", NULL),
                                       Message("error"), Assign(NULL)>>
                     IN  /\ applePaySession' = RefAfter(applePaySession, calls)
                         /\ isInitiating' = FALSE
                         /\ wallet' = [old.wallet EXCEPT ![s] = "closed"]
                         /\ nextId' = s + 1
                         /\ last' = Ran("initiateApplePay", s, "begin_failed", calls)
                         /\ UNCHANGED timers
                ELSE LET begun == BeginSession([old.wallet EXCEPT ![s] = "created"], s)
                         calls == old.calls
                                  \o <<Call("new ApplePaySession", s, "ok", NULL), Assign(s)>>
                                  \o begun.calls
                     IN  /\ applePaySession' = RefAfter(applePaySession, calls)
                         /\ isInitiating' = TRUE
                         /\ wallet' = begun.wallet
                         /\ nextId' = s + 1
                         /\ timers' = ArmTimer(timers, s)
                         /\ last' = Ran("initiateApplePay", s, "begun", calls)
    /\ valPending' = valPending \cup Posted(last'.calls, "/api/applepay/validate")
    /\ procPending' = procPending \cup Posted(last'.calls, "/api/applepay/process")
    /\ UNCHANGED <<userId, merchantId, configLoaded, valFired, txn, txnResult>>

\* The timer callback: if (this.isInitiating) this.isInitiating = false.
TimerFires(t) ==
    /\ t \in timers
    /\ timers' = timers \ {t}
    /\ isInitiating' = FALSE
    /\ last' = Ran("timeout", t, IF isInitiating THEN "reset" ELSE "nothing", <<>>)
    /\ UNCHANGED <<userId, merchantId, configLoaded, applePaySession, wallet, nextId,
                   valPending, procPending, valFired, txn, txnResult>>

----------------------------------------------------------------------------
\* The callbacks the wallet runtime delivers to a session's handlers.

\* The payment sheet goes away (the user closes it, or it times out): the
\* session is over at once, its oncancel handler runs in a later task.
Dismiss(s) ==
    /\ wallet[s] \in Live
    /\ wallet' = [wallet EXCEPT ![s] = "dismissed"]
    /\ last' = Ran("dismiss", s, "dismissed", <<>>)
    /\ UNCHANGED <<userId, merchantId, configLoaded, applePaySession, isInitiating, nextId,
                   timers, valPending, procPending, valFired,
                   txn, txnResult>>

\* fetch('/api/applepay/validate', ...) of validateMerchant.
ValidateRequests(s) == <<Call("fetch", s, "/api/applepay/validate", NULL)>>

\* fetch('/api/applepay/process', ...) of processPayment.
ProcessRequests(s) == <<Call("fetch", s, "/api/applepay/process", NULL)>>

\* onvalidatemerchant, up to the first await of validateMerchant.
onvalidatemerchant(s) ==
    /\ wallet[s] = "active"
    /\ wallet' = [wallet EXCEPT ![s] = "validating"]
    /\ valFired' = valFired \cup {s}
    /\ isInitiating' = FALSE
    /\ valPending' = valPending \cup Posted(ValidateRequests(s), "/api/applepay/validate")
    /\ procPending' = procPending \cup Posted(ValidateRequests(s), "/api/applepay/process")
    /\ last' = Ran("onvalidatemerchant", s, "posted", ValidateRequests(s))
    /\ UNCHANGED <<userId, merchantId, configLoaded, applePaySession, nextId, timers,
                   txn, txnResult>>

\* onpaymentauthorized, up to the first await of processPayment.
onpaymentauthorized(s) ==
    /\ wallet[s] = "validated"
    /\ wallet' = [wallet EXCEPT ![s] = "authorized"]
    /\ valPending' = valPending \cup Posted(ProcessRequests(s), "/api/applepay/validate")
    /\ procPending' = procPending \cup Posted(ProcessRequests(s), "/api/applepay/process")
    /\ last' = Ran("onpaymentauthorized", s, "posted", ProcessRequests(s))
    /\ UNCHANGED <<userId, merchantId, configLoaded, applePaySession, isInitiating, nextId,
                   timers, valFired, txn, txnResult>>

\* What the oncancel and onerror handlers assign.
CancelAssigns_keepFlag == [calls |-> <<Message("info"), Assign(NULL)>>, flag |-> isInitiating]

CancelAssigns_keepRef == [calls |-> <<Message("info")>>, flag |-> FALSE]

CancelAssigns == [calls |-> <<Message("info"), Assign(NULL)>>, flag |-> FALSE]

ErrorAssigns == [calls |-> <<Message("error"), Assign(NULL)>>, flag |-> FALSE]

oncancel(s) ==
    /\ wallet[s] \in Live \cup {"dismissed"}
    /\ wallet' = [wallet EXCEPT ![s] = "closed"]
    /\ applePaySession' = RefAfter(applePaySession, CancelAssigns.calls)
    /\ isInitiating' = CancelAssigns.flag
    /\ last' = Ran("oncancel", s, "cancelled", CancelAssigns.calls)
    /\ UNCHANGED <<userId, merchantId, configLoaded, nextId, timers, valPending, procPending,
                   valFired, txn, txnResult>>

onerror(s) ==
    /\ wallet[s] \in Live
    /\ wallet' = [wallet EXCEPT ![s] = "closed"]
    /\ applePaySession' = RefAfter(applePaySession, ErrorAssigns.calls)
    /\ isInitiating' = ErrorAssigns.flag
    /\ last' = Ran("onerror", s, "errored", ErrorAssigns.calls)
    /\ UNCHANGED <<userId, merchantId, configLoaded, nextId, timers, valPending, procPending,
                   valFired, txn, txnResult>>

----------------------------------------------------------------------------
\* The continuations of validateMerchant and processPayment, run when the
\* backend's answer (or the failure of the fetch) arrives.

\* How a fetch can end: a 2xx answer of the expected shape, a non-2xx answer,
\* a 2xx answer without the expected fields, a rejected fetch or unparseable body.
Answers == {"ok", "http_error", "invalid", "network_error"}

\* validateMerchant after "await fetch": r names the request, ref is
\* this.applePaySession at that moment.
validateMerchant(ref, w, r, answer) ==
    LET reached == answer = "ok" /\ ref # NULL
        threw   == ~reached \/ CompleteMerchantValidationThrows(w, ref)
        try     == IF reached
                   THEN <<Call("completeMerchantValidation", ref,
                               IF threw THEN "throws" ELSE "ok", r)>>
                   ELSE <<>>
        w1      == IF reached THEN CompleteMerchantValidation(w, ref, r) ELSE w
        catch   == IF ~threw THEN <<>>
                   ELSE (IF ref # NULL
                         THEN <<Call("abort", ref,
                                     IF AbortThrows(w1, ref) THEN "throws" ELSE "ok", NULL),
                                Assign(NULL)>>
                         ELSE <<>>)
                        \o <<Message("error")>>
    IN  [calls   |-> try \o catch,
         wallet  |-> IF threw /\ ref # NULL THEN Abort(w1, ref) ELSE w1,
         flag    |-> IF threw THEN FALSE ELSE isInitiating,
         outcome |-> IF threw THEN "failed" ELSE "validated"]

ValidateAnswer(r, answer) ==
    /\ r \in valPending
    /\ LET done == validateMerchant(applePaySession, wallet, r, answer)
       IN  /\ valPending' = (valPending \ {r}) \cup Posted(done.calls, "/api/applepay/validate")
           /\ wallet' = done.wallet
           /\ applePaySession' = RefAfter(applePaySession, done.calls)
           /\ isInitiating' = done.flag
           /\ last' = [Ran("validateMerchant", r, done.outcome, done.calls)
                        EXCEPT !.op = "validateMerchant:" \o answer]
    /\ UNCHANGED <<userId, merchantId, configLoaded, nextId, timers, procPending, valFired,
                   txn, txnResult>>

\* processPayment after "await fetch".
processPayment(ref, w, r, answer) ==
    LET reached == answer = "ok" /\ ref # NULL
        threw   == ~reached \/ CompletePaymentThrows(w, ref)
        try     == IF reached
                   THEN <<Call("completePayment", ref,
                               IF threw THEN "SUCCESS throws" ELSE "SUCCESS", NULL)>>
                        \o (IF threw THEN <<>> ELSE <<Assign(NULL), Message("success")>>)
                   ELSE <<>>
        w1      == IF reached THEN CompletePayment(w, ref, "SUCCESS") ELSE w
        catch   == IF ~threw THEN <<>>
                   ELSE (IF ref # NULL
                         THEN <<Call("completePayment", ref,
                                     IF CompletePaymentThrows(w1, ref)
                                     THEN "FAILURE throws" ELSE "FAILURE", NULL),
                                Assign(NULL)>>
                         ELSE <<>>)
                        \o <<Message("error")>>
    IN  [calls   |-> try \o catch,
         wallet  |-> IF threw /\ ref # NULL THEN CompletePayment(w1, ref, "FAILURE") ELSE w1,
         flag    |-> FALSE,
         outcome |-> IF threw THEN "failed" ELSE "succeeded"]

ProcessAnswer(r, answer) ==
    /\ r \in procPending
    /\ LET done == processPayment(applePaySession, wallet, r, answer)
       IN  /\ procPending' = (procPending \ {r}) \cup Posted(done.calls, "/api/applepay/process")
           /\ wallet' = done.wallet
           /\ applePaySession' = RefAfter(applePaySession, done.calls)
           /\ isInitiating' = done.flag
           /\ last' = [Ran("processPayment", r, done.outcome, done.calls)
                        EXCEPT !.op = "processPayment:" \o answer]
    /\ UNCHANGED <<userId, merchantId, configLoaded, nextId, timers, valPending, valFired,
                   txn, txnResult>>

----------------------------------------------------------------------------
Next ==
    \/ \E answered \in BOOLEAN, m \in MerchantIdValues : LoadConfig(answered, m)
    \/ \E v \in UserIdInputs : SetUserId(v)
    \/ \E constructOk \in BOOLEAN, beginOk \in BOOLEAN : initiateApplePay(constructOk, beginOk)
    \/ \E t \in SessionIds : TimerFires(t)
    \/ \E s \in SessionIds : onvalidatemerchant(s)
    \/ \E s \in SessionIds : onpaymentauthorized(s)
    \/ \E s \in SessionIds : Dismiss(s)
    \/ \E s \in SessionIds : oncancel(s)
    \/ \E s \in SessionIds : onerror(s)
    \/ \E r \in SessionIds, answer \in Answers : ValidateAnswer(r, answer)
    \/ \E r \in SessionIds, answer \in Answers : ProcessAnswer(r, answer)

Spec == Init /\ [][Next]_vars

\* A timer that was armed fires: the browser's event loop runs every due timer.
LiveSpec == Spec /\ WF_vars(\E t \in SessionIds : TimerFires(t))

TypeOK ==
    /\ userId \in {Trim(v) : v \in UserIdInputs}
    /\ merchantId \in MerchantIdValues
    /\ applePaySession \in SessionIds \cup {NULL}
    /\ isInitiating \in BOOLEAN
    /\ nextId \in 1..(MaxSessions + 1)
    /\ timers \subseteq SessionIds
    /\ valPending \subseteq SessionIds
    /\ procPending \subseteq SessionIds
    /\ valFired \subseteq SessionIds

----------------------------------------------------------------------------
\* The gateway's response document, as the sequence of its tags and texts.
\* An optional value is <<>> when absent and <<v>> when present.

\* Number of error entries (and of message entries) a response may carry.
MaxEntries == 2

None == <<>>

Some(v) == <<v>>

Open(tag) == "<" \o tag \o ">"

Close(tag) == "</" \o tag \o ">"

Elem(tag, body) == <<Open(tag)>> \o body \o <<Close(tag)>>

OptElem(tag, opt) == IF opt = None THEN <<>> ELSE Elem(tag, opt)

RECURSIVE Flatten(_)
Flatten(seqs) == IF seqs = <<>> THEN <<>> ELSE Head(seqs) \o Flatten(Tail(seqs))

ErrorElem(e) ==
    Elem("error", Elem("errorCode", <<e.errorCode>>) \o Elem("errorText", <<e.errorText>>))

MessageElem(m) ==
    Elem("message", Elem("code", <<m.code>>) \o Elem("text", <<m.text>>))

MessagesSection(d) ==
    Elem("messages",
         OptElem("resultCode", d.resultCode)
         \o Flatten([i \in 1..Len(d.message) |-> MessageElem(d.message[i])]))

TransactionSection(d) ==
    Elem("transactionResponse",
         OptElem("responseCode", d.responseCode)
         \o OptElem("authCode", d.authCode)
         \o OptElem("transId", d.transId)
         \o (IF d.errors = <<>> THEN <<>>
             ELSE Elem("errors", Flatten([i \in 1..Len(d.errors) |-> ErrorElem(d.errors[i])]))))

\* The document the gateway sends for the content d.
Document(d) ==
    Elem("createTransactionResponse",
         (IF d.hasMessages THEN MessagesSection(d) ELSE <<>>)
         \o (IF d.hasTransaction THEN TransactionSection(d) ELSE <<>>))

TransactionErrors == << [errorCode |-> "2", errorText |-> "Declined"],
                        [errorCode |-> "11", errorText |-> "Duplicate"],
                        [errorCode |-> "27", errorText |-> "AVS mismatch"] >>

EnvelopeMessages == << [code |-> "I00001", text |-> "Successful."],
                       [code |-> "E00027", text |-> "Unsuccessful."],
                       [code |-> "E00007", text |-> "Authentication failed."] >>

Prefixes(seq, n) == {SubSeq(seq, 1, k) : k \in 0..n}

\* The contents a response is drawn from.
Contents ==
    [resultCode   : {None, Some("Ok"), Some("Error")},
     message      : Prefixes(EnvelopeMessages, MaxEntries),
     responseCode : {None, Some("1"), Some("2")},
     authCode     : {None, Some("AUTH1")},
     transId      : {None, Some("T1")},
     errors       : Prefixes(TransactionErrors, MaxEntries),
     hasMessages  : BOOLEAN,
     hasTransaction : BOOLEAN]

----------------------------------------------------------------------------
\* parseXmlResponse

RECURSIVE IndexFrom(_, _, _)
\* The first place at or after from where xml holds the token, 0 if none.
IndexFrom(xml, token, from) ==
    IF from > Len(xml) THEN 0
    ELSE IF xml[from] = token THEN from
    ELSE IndexFrom(xml, token, from + 1)

\* xml.match(/<tag>(...*?)<\/tag>/) searched from a place on: the places of
\* the first opening tag and of the first closing tag after it, <<>> if none.
MatchFrom(xml, tag, from) ==
    LET i == IndexFrom(xml, Open(tag), from)
        j == IF i = 0 THEN 0 ELSE IndexFrom(xml, Close(tag), i + 1)
    IN  IF i = 0 \/ j = 0 THEN None ELSE Some([open |-> i, close |-> j])

\* The captured group of the match m.
Captured(xml, m) ==
    IF m = None THEN None ELSE Some(SubSeq(xml, m[1].open + 1, m[1].close - 1))

\* The captured group of the first match.
Match(xml, tag) == Captured(xml, MatchFrom(xml, tag, 1))

RECURSIVE Text(_)
Text(tokens) == IF tokens = <<>> THEN "" ELSE Head(tokens) \o Text(Tail(tokens))

\* The text of the captured group of a match, if there is a match.
GroupText(match) == IF match = None THEN None ELSE Some(Text(match[1]))

\* The text of the first <tag>...</tag> of xml, if there is one.
Field(xml, tag) == GroupText(Match(xml, tag))

RECURSIVE MatchAllFrom(_, _, _)
\* The captured groups from the match m on.
MatchAllAt(xml, tag, m) ==
    IF m = None THEN <<>>
    ELSE <<SubSeq(xml, m[1].open + 1, m[1].close - 1)>>
         \o MatchAllFrom(xml, tag, m[1].close + 1)

\* xml.matchAll(/<tag>(...*?)<\/tag>/g): the captured groups, in order.
MatchAllFrom(xml, tag, from) == MatchAllAt(xml, tag, MatchFrom(xml, tag, from))

OrEmpty(opt) == IF opt = None THEN "" ELSE opt[1]

\* An empty list of entries is left out of the result.
NonEmpty(list) == IF list = <<>> THEN None ELSE Some(list)

\* The entries pushed to errors, one for each <error> element.
ErrorEntries(errorMatches) ==
    [i \in 1..Len(errorMatches) |->
        [errorCode |-> OrEmpty(Field(errorMatches[i], "errorCode")),
         errorText |-> OrEmpty(Field(errorMatches[i], "errorText"))]]

\* The entries pushed to messageErrors, one for each <message> element.
MessageEntries(messageMatches) ==
    [i \in 1..Len(messageMatches) |->
        [code |-> OrEmpty(Field(messageMatches[i], "code")),
         text |-> OrEmpty(Field(messageMatches[i], "text"))]]

\* result.transactionResponse, from the inside of <transactionResponse>.
TransactionResponseOf(transXml) ==
    [responseCode |-> Field(transXml, "responseCode"),
     authCode     |-> Field(transXml, "authCode"),
     transId      |-> Field(transXml, "transId"),
     errors       |-> NonEmpty(ErrorEntries(MatchAllFrom(transXml, "error", 1)))]

\* result.messages, from the inside of <messages>.
MessagesOf(messagesXml) ==
    [resultCode |-> Field(messagesXml, "resultCode"),
     message    |-> NonEmpty(MessageEntries(MatchAllFrom(messagesXml, "message", 1)))]

\* The result, from the two section matches.
ParsedSections(transMatch, messagesMatch) ==
    [transactionResponse |->
        IF transMatch = None
        THEN [responseCode |-> None, authCode |-> None, transId |-> None, errors |-> None]
        ELSE TransactionResponseOf(transMatch[1]),
     messages |->
        IF messagesMatch = None
        THEN [resultCode |-> None, message |-> None]
        ELSE MessagesOf(messagesMatch[1])]

parseXmlResponse(xmlString) ==
    ParsedSections(Match(xmlString, "transactionResponse"), Match(xmlString, "messages"))

----------------------------------------------------------------------------
\* processApplePayTransaction

OrList(opt) == IF opt = None THEN <<>> ELSE opt[1]

\* parsedResponse.messages.resultCode !== 'Ok', negated.
EnvelopeOk_unlessError(p) == p.messages.resultCode # Some("Error")

EnvelopeOk(p) == p.messages.resultCode = Some("Ok")

\* parsedResponse.transactionResponse.responseCode !== '1', negated.
Approved_unlessDeclined(p) == p.transactionResponse.responseCode # Some("2")

Approved(p) == p.transactionResponse.responseCode = Some("1")

\* e.text || e.errorText || e.code || e.errorCode
Label(e) ==
    IF "text" \in DOMAIN e
    THEN (IF e.text # "" THEN e.text ELSE e.code)
    ELSE (IF e.errorText # "" THEN e.errorText ELSE e.errorCode)

RECURSIVE JoinLabels(_)
\* allErrors.map(...).join('; ')
JoinLabels(list) ==
    IF list = <<>> THEN ""
    ELSE IF Len(list) = 1 THEN Label(list[1])
    ELSE Label(list[1]) \o "; " \o JoinLabels(Tail(list))

\* The error thrown when the envelope's result code is not Ok.
EnvelopeError(p) ==
    LET errorMessages     == OrList(p.messages.message)
        transactionErrors == OrList(p.transactionResponse.errors)
        allErrors         == errorMessages \o transactionErrors
    IN  [message  |-> IF allErrors # <<>> THEN JoinLabels(allErrors)
                      ELSE "Authorize.Net transaction failed",
         response |-> None,
         authorizeNetError |->
             Some([resultCode        |-> p.messages.resultCode,
                   errors            |-> allErrors,
                   messageErrors     |-> errorMessages,
                   transactionErrors |-> transactionErrors,
                   response          |-> p])]

\* The error thrown when the transaction's response code is not 1.
DeclinedError_withMessages(p) ==
    [message  |-> "Transaction was declined",
     response |-> None,
     authorizeNetError |->
         Some([responseCode |-> p.transactionResponse.responseCode,
               errors       |-> OrList(p.messages.message)
                                \o OrList(p.transactionResponse.errors),
               response     |-> p])]

DeclinedError(p) ==
    [message  |-> "Transaction was declined",
     response |-> None,
     authorizeNetError |->
         Some([responseCode |-> p.transactionResponse.responseCode,
               errors       |-> OrList(p.transactionResponse.errors),
               response     |-> p])]

\* What axios.post throws: with the gateway's answer when its status is not
\* 2xx, without one when the gateway was not reached or timed out.
HttpError(xml) ==
    [message  |-> "Request failed with status code 500",
     response |-> Some([status |-> 500, statusText |-> "Internal Server Error", data |-> xml]),
     authorizeNetError |-> None]

\* The 30 second timeout of the call: axios gives it the code ECONNABORTED.
NetworkError ==
    [message |-> "timeout of 30000ms exceeded", code |-> Some("ECONNABORTED"),
     response |-> None, authorizeNetError |-> None]

\* What axios.post throws when the gateway's host refuses the connection.
ConnectionRefused ==
    [message |-> "connect ECONNREFUSED", code |-> Some("ECONNREFUSED"),
     response |-> None, authorizeNetError |-> None]

MissingPaymentData ==
    [message |-> "Apple Pay token missing paymentData", response |-> None,
     authorizeNetError |-> None]

\* The catch block: the error as it is thrown again.
\* error.authorizeNetError, built from the gateway's parsed answer p.
ResponseDetails(response, p, errorMessages, transactionErrors) ==
    [status            |-> response.status,
     statusText        |-> response.statusText,
     resultCode        |-> p.messages.resultCode,
     errors            |-> errorMessages \o transactionErrors,
     messageErrors     |-> errorMessages,
     transactionErrors |-> transactionErrors,
     response          |-> p,
     rawResponse       |-> response.data]

EnhanceParsed(error, p) ==
    [error EXCEPT !.authorizeNetError =
        Some(ResponseDetails(error.response[1], p,
                             OrList(p.messages.message),
                             OrList(p.transactionResponse.errors)))]

\* error.authorizeNetError.errors, filled from the two lists when empty.
WithErrors(a) ==
    [a EXCEPT !.errors =
        (IF "messageErrors" \in DOMAIN a THEN a.messageErrors ELSE <<>>)
        \o (IF "transactionErrors" \in DOMAIN a THEN a.transactionErrors ELSE <<>>)]

Enhance(error) ==
    IF error.response # None
    THEN EnhanceParsed(error, parseXmlResponse(error.response[1].data))
    ELSE IF error.authorizeNetError # None /\ error.authorizeNetError[1].errors = <<>>
    THEN [error EXCEPT !.authorizeNetError = Some(WithErrors(error.authorizeNetError[1]))]
    ELSE error

Return(v) == [threw |-> FALSE, value |-> Some(v), error |-> None]

Throw(e) == [threw |-> TRUE, value |-> None, error |-> Some(e)]

\* in.token: whether the token carries paymentData; in.transport: how the
\* POST to the gateway ends; in.content: what the gateway answers.
Translate(in, xml, p) ==
    IF in.token # "paymentData" THEN Throw(Enhance(MissingPaymentData))
    ELSE IF in.transport = "network_error" THEN Throw(Enhance(NetworkError))
    ELSE IF in.transport = "refused" THEN Throw(Enhance(ConnectionRefused))
    ELSE IF in.transport = "http_error" THEN Throw(Enhance(HttpError(xml)))
    ELSE IF ~EnvelopeOk(p) THEN Throw(Enhance(EnvelopeError(p)))
    ELSE IF ~Approved(p) THEN Throw(Enhance(DeclinedError(p)))
    ELSE Return([success       |-> TRUE,
                 transactionId |-> p.transactionResponse.transId,
                 authCode      |-> p.transactionResponse.authCode,
                 responseCode  |-> p.transactionResponse.responseCode,
                 amount        |-> in.amount,
                 details       |-> p.transactionResponse])

TranslateDocument(in, xml) == Translate(in, xml, parseXmlResponse(xml))

processApplePayTransaction(in) == TranslateDocument(in, Document(in.content))

Transactions ==
    [token     : {"paymentData", "none"},
     transport : {"answer", "http_error", "network_error", "refused"},
     amount    : {"10.00"},
     content   : Contents]

ControllerIdle ==
    /\ userId = <<>>
    /\ merchantId = <<>>
    /\ configLoaded = FALSE
    /\ applePaySession = NULL
    /\ isInitiating = FALSE
    /\ wallet = [s \in SessionIds |-> NoSession]
    /\ nextId = 1
    /\ timers = {}
    /\ valPending = {}
    /\ procPending = {}
    /\ valFired = {}
    /\ last = Ran("constructor", NULL, "done", <<>>)

TranslatorInit ==
    /\ ControllerIdle
    /\ txn \in Transactions
    /\ txnResult = <<>>

Process ==
    /\ txnResult = <<>>
    /\ txnResult' = processApplePayTransaction(txn)
    /\ UNCHANGED <<userId, merchantId, configLoaded, applePaySession, isInitiating, wallet,
                   nextId, timers, valPending, procPending, valFired, last, txn>>

TranslatorNext == Process

TranslatorSpec == TranslatorInit /\ [][TranslatorNext]_vars

----------------------------------------------------------------------------
\* JSON texts, as sequences of characters, and the values they stand for: a
\* string [type, text] or an object [type, members], the members being the
\* sequence of its <<key, value>> pairs in insertion order.  Numbers, booleans,
\* null and arrays do not occur in the values modelled here.

JString(text) == [type |-> "string", text |-> text]

JObject(members) == [type |-> "object", members |-> members]

Quote == "\""

Backslash == "\\"

RECURSIVE EscapeJSON(_)
\* The characters of a string as JSON.stringify writes them between the quotes.
EscapeJSON(text) ==
    IF text = <<>> THEN <<>>
    ELSE IF Len(text) = 1
    THEN (IF text[1] \in {Quote, Backslash} THEN <<Backslash, text[1]>> ELSE text)
    ELSE EscapeJSON(SubSeq(text, 1, Len(text) \div 2))
         \o EscapeJSON(SubSeq(text, Len(text) \div 2 + 1, Len(text)))

QuoteJSON(text) == <<Quote>> \o EscapeJSON(text) \o <<Quote>>

RECURSIVE JSONStringify(_), StringifyMembers(_)
\* JSON.stringify(v), without indentation.
JSONStringify(v) ==
    IF v.type = "string" THEN QuoteJSON(v.text)
    ELSE <<"{">> \o StringifyMembers(v.members) \o <<"}">>

StringifyMembers(ms) ==
    IF ms = <<>> THEN <<>>
    ELSE QuoteJSON(ms[1][1]) \o <<":">> \o JSONStringify(ms[1][2])
         \o (IF Len(ms) = 1 THEN <<>> ELSE <<",">> \o StringifyMembers(Tail(ms)))

\* A failed parse: JSON.parse throws a SyntaxError.
SyntaxError == [ok |-> FALSE, value |-> None, next |-> 0]

ParsedTo(v, next) == [ok |-> TRUE, value |-> v, next |-> next]

\* Defining a property of an object: a key that is there keeps its place and
\* takes the new value, a new key goes to the end.
Put(ms, key, value) ==
    IF \E i \in 1..Len(ms) : ms[i][1] = key
    THEN [i \in 1..Len(ms) |-> IF ms[i][1] = key THEN <<key, value>> ELSE ms[i]]
    ELSE Append(ms, <<key, value>>)

RECURSIVE ParseString(_, _, _), ParseValue(_, _), ParseMembers(_, _, _)
\* cs[i] is the first character after an opening quote.
ParseString(cs, i, acc) ==
    IF i > Len(cs) THEN SyntaxError
    ELSE IF cs[i] = Quote THEN ParsedTo(acc, i + 1)
    ELSE IF cs[i] = Backslash
    THEN (IF i + 1 <= Len(cs) /\ cs[i + 1] \in {Quote, Backslash}
          THEN ParseString(cs, i + 2, Append(acc, cs[i + 1]))
          ELSE SyntaxError)
    ELSE ParseString(cs, i + 1, Append(acc, cs[i]))

ParseValue(cs, i) ==
    IF i > Len(cs) THEN SyntaxError
    ELSE IF cs[i] = Quote
    THEN LET s == ParseString(cs, i + 1, <<>>)
         IN  IF s.ok THEN ParsedTo(JString(s.value), s.next) ELSE SyntaxError
    ELSE IF cs[i] = "{"
    THEN (IF i + 1 <= Len(cs) /\ cs[i + 1] = "}"
          THEN ParsedTo(JObject(<<>>), i + 2)
          ELSE ParseMembers(cs, i + 1, <<>>))
    ELSE SyntaxError

\* cs[i] is where a member of an object has to start.
ParseMembers(cs, i, acc) ==
    IF i > Len(cs) \/ cs[i] # Quote THEN SyntaxError
    ELSE LET k == ParseString(cs, i + 1, <<>>)
         IN  IF ~k.ok \/ k.next > Len(cs) \/ cs[k.next] # ":" THEN SyntaxError
             ELSE LET v == ParseValue(cs, k.next + 1)
                  IN  IF ~v.ok \/ v.next > Len(cs) THEN SyntaxError
                      ELSE IF cs[v.next] = ","
                      THEN ParseMembers(cs, v.next + 1, Put(acc, k.value, v.value))
                      ELSE IF cs[v.next] = "}"
                      THEN ParsedTo(JObject(Put(acc, k.value, v.value)), v.next + 1)
                      ELSE SyntaxError

\* JSON.parse(cs): the value, or a SyntaxError when cs is not one whole JSON text.
JSONParse(cs) ==
    LET r == ParseValue(cs, 1)
    IN  IF r.ok /\ r.next = Len(cs) + 1 THEN [ok |-> TRUE, value |-> Some(r.value)]
        ELSE [ok |-> FALSE, value |-> None]

----------------------------------------------------------------------------
\* The backend's error middleware.  An error is a record with a message and
\* whichever of the optional properties the code set on it.

Get(e, f) == IF f \in DOMAIN e THEN e[f] ELSE None

\* process.env.NODE_ENV of the server process, None when it is not set (as in
\* the specifications whose requests do not name it).
ProcessEnv == IF "NODE_ENV" \in DOMAIN txn THEN txn.NODE_ENV ELSE None

\* process.env.NODE_ENV || 'development'
nodeEnv == IF ProcessEnv \in {None, Some("")} THEN "development" ELSE ProcessEnv[1]

\* config.isDevelopment
isDevelopment_unlessProduction == nodeEnv # "production"

isDevelopment == nodeEnv = "development"

\* err.stack: every error the routes throw is an Error object and has one.
StackOf(err) == Some(<<"Error", err.message, "at">>)

\* err.statusCode || err.status || 500
StatusCodeOf(err) ==
    IF Get(err, "statusCode") \notin {None, Some(0)} THEN err.statusCode[1]
    ELSE IF Get(err, "status") \notin {None, Some(0)} THEN err.status[1]
    ELSE 500

\* errorHandler(err, req, res, next): the status and the body of the response.
errorHandler(err) ==
    LET class ==
          IF Get(err, "name") = Some("ValidationError") \/ Get(err, "type") = Some("validation")
          THEN [type |-> "ValidationError", status |-> 400, code |-> "VALIDATION_ERROR"]
          ELSE IF Get(err, "response") # None
          THEN [type |-> "APIError", status |-> err.response[1].status, code |-> "API_ERROR"]
          ELSE IF Get(err, "code") \in {Some("ENOTFOUND"), Some("ECONNREFUSED")}
          THEN [type |-> "NetworkError", status |-> 503, code |-> "NETWORK_ERROR"]
          ELSE IF Get(err, "code") = Some("ENOENT")
          THEN [type |-> "FileError", status |-> 500, code |-> "FILE_NOT_FOUND"]
          ELSE [type |-> "ApplicationError", status |-> StatusCodeOf(err),
                code |-> IF Get(err, "code") # None THEN err.code[1] ELSE "INTERNAL_ERROR"]
    IN  [status |-> class.status,
         body   |-> [error |->
             [message           |-> err.message,
              code              |-> class.code,
              type              |-> class.type,
              details           |-> IF Get(err, "fields") # None
                                    THEN Some([fields |-> err.fields[1]])
                                    ELSE Get(err, "details"),
              stack             |-> IF isDevelopment /\ StackOf(err) # None
                                    THEN StackOf(err) ELSE None,
              originalError     |-> Get(err, "originalError"),
              authorizeNetError |-> Get(err, "authorizeNetError"),
              applePayError     |-> Get(err, "applePayError")]]]

\* res.json(body)
Json(body) == [status |-> 200, body |-> body]

----------------------------------------------------------------------------
\* POST /api/applepay/validate: the merchant validation relay.

appleMerchantCertPath == "./certs/apple-merchant-cert.pem"

appleMerchantKeyPath == "./certs/apple-merchant-key.pem"

\* !validationURL
UrlMissing_absentOnly(body) == body.validationURL = None

UrlMissing(body) == body.validationURL = None \/ body.validationURL = Some("")

\* Whether fs.readFileSync(path, 'utf8') throws.
ReadFileSyncThrows_never(files, path) == FALSE

ReadFileSyncThrows(files, path) == path \notin files

ValidationURLRequired ==
    [message |-> "validationURL is required",
     type    |-> Some("validation"),
     details |-> Some([field |-> "validationURL", constraint |-> "required"])]

CertificateError(message, path) ==
    [message       |-> "Failed to load " \o message,
     code          |-> Some("ENOENT"),
     applePayError |-> Some([type |-> "CertificateError", message |-> message, path |-> path])]

StatusError(res) ==
    [message       |-> "Apple validation failed with status",
     applePayError |-> Some([statusCode |-> res.statusCode, response |-> res.data])]

ParseError(res) ==
    [message       |-> "Failed to parse Apple validation response",
     originalError |-> Some("SyntaxError"),
     applePayError |-> Some([response |-> res.data])]

ValidationNetworkError ==
    [message       |-> "Network error during merchant validation",
     originalError |-> Some("socket error"),
     applePayError |-> Some([type |-> "NetworkError", message |-> "socket error"])]

TimeoutError ==
    [message       |-> "Merchant validation request timeout",
     applePayError |-> Some([type |-> "TimeoutError"])]

\* The promise the route awaits: the first resolve or reject settles it, every
\* later one is ignored.
Pending == [state |-> "pending", value |-> None]

Resolve(p, v) == IF p.state = "pending" THEN [state |-> "fulfilled", value |-> Some(v)] ELSE p

Reject_overwriting(p, e) == [state |-> "rejected", value |-> Some(e)]

Reject(p, e) == IF p.state = "pending" THEN [state |-> "rejected", value |-> Some(e)] ELSE p

\* res.statusCode === 200
StatusOk_any2xx(res) == res.statusCode \in {200, 201}

StatusOk(res) == res.statusCode = 200

\* The route from its start to its first await, or to the error it throws
\* before: the files it read, the request it sent, the response it gave.
validateRoute(body, files) ==
    LET started == [pc |-> "done", reads |-> <<>>, outbound |-> <<>>, req |-> "none",
                    events |-> <<>>, res |-> None, promise |-> Pending, responses |-> <<>>]
    IN  IF UrlMissing(body)
        THEN [started EXCEPT !.responses = <<errorHandler(ValidationURLRequired)>>]
        ELSE IF ReadFileSyncThrows(files, appleMerchantCertPath)
        THEN [started EXCEPT
                !.reads = <<appleMerchantCertPath>>,
                !.responses = <<errorHandler(CertificateError("merchant certificate",
                                                              appleMerchantCertPath))>>]
        ELSE IF ReadFileSyncThrows(files, appleMerchantKeyPath)
        THEN [started EXCEPT
                !.reads = <<appleMerchantCertPath, appleMerchantKeyPath>>,
                !.responses = <<errorHandler(CertificateError("merchant private key",
                                                              appleMerchantKeyPath))>>]
        ELSE [started EXCEPT
                !.pc = "awaiting",
                !.reads = <<appleMerchantCertPath, appleMerchantKeyPath>>,
                !.outbound = <<body.validationURL[1]>>,
                !.req = "inflight"]

Relayed ==
    /\ UNCHANGED <<userId, merchantId, configLoaded, applePaySession, isInitiating, wallet,
                   nextId, timers, valPending, procPending, valFired, last, txn>>

ValidateRoute ==
    /\ txnResult = <<>>
    /\ txnResult' = validateRoute(txn.body, txn.files)
    /\ Relayed

\* The statuses and bodies the wallet provider may answer with.
Statuses == {200, 201, 500}

MerchantSessions ==
    { JObject(<<>>),
      JObject(<< <<<<"e">>, JString(<<"1">>)>> >>),
      JObject(<< <<<<"e">>, JString(<<"1">>)>>, <<<<"s">>, JString(<<Quote, "x">>)>> >>),
      JString(<<"o", "k">>) }

\* The text of a session, whole, cut short, or followed by something else.
Bodies ==
    UNION { { JSONStringify(s),
              SubSeq(JSONStringify(s), 1, Len(JSONStringify(s)) - 1),
              JSONStringify(s) \o <<"<">> } : s \in MerchantSessions }

\* res.on('end'): the response has been read to its end.
ResponseEnd(statusCode, data) ==
    /\ txnResult # <<>>
    /\ txnResult.req \in {"inflight", "destroyed"}
    /\ \A i \in 1..Len(txnResult.events) : txnResult.events[i] \notin {"end", "error"}
    /\ LET res    == [statusCode |-> statusCode, data |-> data]
           parsed == JSONParse(data)
       IN  txnResult' =
             [txnResult EXCEPT
                !.events = Append(@, "end"),
                !.res = Some(res),
                !.req = IF @ = "inflight" THEN "complete" ELSE @,
                !.promise = IF StatusOk(res)
                            THEN (IF parsed.ok THEN Resolve(@, parsed.value[1])
                                  ELSE Reject(@, ParseError(res)))
                            ELSE Reject(@, StatusError(res))]
    /\ Relayed

\* req.on('error'): the connection failed, or was destroyed.
RequestError ==
    /\ txnResult # <<>>
    /\ txnResult.req \in {"inflight", "destroyed"}
    /\ \A i \in 1..Len(txnResult.events) : txnResult.events[i] # "error"
    /\ txnResult' =
         [txnResult EXCEPT
            !.events = Append(@, "error"),
            !.req = IF @ = "inflight" THEN "failed" ELSE @,
            !.promise = Reject(@, ValidationNetworkError)]
    /\ Relayed

\* The callback of req.setTimeout(10000, ...): req.destroy(), then reject.
RequestTimeout ==
    /\ txnResult # <<>>
    /\ txnResult.req = "inflight"
    /\ txnResult' =
         [txnResult EXCEPT
            !.events = Append(@, "timeout"),
            !.req = "destroyed",
            !.promise = Reject(@, TimeoutError)]
    /\ Relayed

\* The route after its await: res.json on fulfilment, the error middleware on
\* rejection.
ValidateRespond ==
    /\ txnResult # <<>>
    /\ txnResult.pc = "awaiting"
    /\ txnResult.promise.state # "pending"
    /\ txnResult' =
         [txnResult EXCEPT
            !.pc = "done",
            !.responses =
               Append(@, IF txnResult.promise.state = "fulfilled"
                         THEN Json([success |-> TRUE,
                                    merchantSession |-> txnResult.promise.value[1]])
                         ELSE errorHandler(txnResult.promise.value[1]))]
    /\ Relayed

ValidationUrls == {None, Some(""), Some("https://apple-pay-gateway.apple.com/startSession")}

\* The values NODE_ENV may have when the server starts.
NodeEnvs == {None, Some(""), Some("development"), Some("production"), Some("test")}

ValidateRequestsReceived ==
    [body     : [validationURL : ValidationUrls],
     files    : SUBSET {appleMerchantCertPath, appleMerchantKeyPath},
     NODE_ENV : NodeEnvs]

RelayInit ==
    /\ ControllerIdle
    /\ txn \in ValidateRequestsReceived
    /\ txnResult = <<>>

RelayNext ==
    \/ ValidateRoute
    \/ \E statusCode \in Statuses, data \in Bodies : ResponseEnd(statusCode, data)
    \/ RequestError
    \/ RequestTimeout
    \/ ValidateRespond

RelaySpec == RelayInit /\ [][RelayNext]_vars

----------------------------------------------------------------------------
\* Characters, UTF-8 and base64.  A text is a sequence of one-character strings.

\* The printable ASCII characters, from code 32 to code 126 (code 96, the grave
\* accent, by its name).
Ascii ==
    <<
       " ", "!", "\"", "#", "$", "%", "&", "'", "(", ")", "*", "+", ",", "-", ".", "/",
       "0", "1", "2", "3", "4", "5", "6", "7", "8", "9", ":", ";", "<", "=", ">", "?",
       "@", "A", "B", "C", "D", "E", "F", "G", "H", "I", "J", "K", "L", "M", "N", "O",
       "P", "Q", "R", "S", "T", "U", "V", "W", "X", "Y", "Z", "[", "\\", "]", "^", "_",
       "grave", "a", "b", "c", "d", "e", "f", "g", "h", "i", "j", "k", "l", "m", "n", "o",
       "p", "q", "r", "s", "t", "u", "v", "w", "x", "y", "z", "{", "|", "}", "~" >>

IndexOf(seq, x) == CHOOSE i \in 1..Len(seq) : seq[i] = x

\* The code unit of a character.
CharCode(c) == IF c = "é" THEN 233 ELSE 31 + IndexOf(Ascii, c)

FromCharCode(n) == IF n = 233 THEN "é" ELSE Ascii[n - 31]

RECURSIVE Utf8Encode(_)
\* Buffer.from(text, 'utf8'): the bytes of the text.
Utf8Encode(text) ==
    IF text = <<>> THEN <<>>
    ELSE IF Len(text) = 1
    THEN LET n == CharCode(text[1])
         IN  IF n < 128 THEN <<n>> ELSE <<192 + (n \div 64), 128 + (n % 64)>>
    ELSE Utf8Encode(SubSeq(text, 1, Len(text) \div 2))
         \o Utf8Encode(SubSeq(text, Len(text) \div 2 + 1, Len(text)))

Base64Alphabet ==
    SubSeq(Ascii, 34, 59) \o SubSeq(Ascii, 66, 91) \o SubSeq(Ascii, 17, 26) \o <<"+", "/">>

Base64Char(sextet) == Base64Alphabet[sextet + 1]

RECURSIVE Base64Encode(_)
\* buffer.toString('base64')
Base64Encode(bytes) ==
    IF bytes = <<>> THEN <<>>
    ELSE IF Len(bytes) = 1
    THEN <<Base64Char(bytes[1] \div 4), Base64Char((bytes[1] % 4) * 16), "=", "=">>
    ELSE IF Len(bytes) = 2
    THEN <<Base64Char(bytes[1] \div 4),
           Base64Char((bytes[1] % 4) * 16 + (bytes[2] \div 16)),
           Base64Char((bytes[2] % 16) * 4), "=">>
    ELSE IF Len(bytes) = 3
    THEN <<Base64Char(bytes[1] \div 4),
           Base64Char((bytes[1] % 4) * 16 + (bytes[2] \div 16)),
           Base64Char((bytes[2] % 16) * 4 + (bytes[3] \div 64)),
           Base64Char(bytes[3] % 64)>>
    ELSE LET half == 3 * ((Len(bytes) \div 3 + 1) \div 2)
         IN  Base64Encode(SubSeq(bytes, 1, half))
             \o Base64Encode(SubSeq(bytes, half + 1, Len(bytes)))

----------------------------------------------------------------------------
\* escapeXml

RECURSIVE ReplaceAll(_, _, _)
\* str.replace(/c/g, entity)
ReplaceAll(str, c, entity) ==
    IF str = <<>> THEN <<>>
    ELSE IF Len(str) = 1 THEN (IF str[1] = c THEN entity ELSE str)
    ELSE ReplaceAll(SubSeq(str, 1, Len(str) \div 2), c, entity)
         \o ReplaceAll(SubSeq(str, Len(str) \div 2 + 1, Len(str)), c, entity)

escapeXml_ampersandLast(str) ==
    ReplaceAll(ReplaceAll(ReplaceAll(ReplaceAll(ReplaceAll(str,
        "<", <<"&", "l", "t", ";">>),
        ">", <<"&", "g", "t", ";">>),
        Quote, <<"&", "q", "u", "o", "t", ";">>),
        "'", <<"&", "a", "p", "o", "s", ";">>),
        "&", <<"&", "a", "m", "p", ";">>)

\* if (!str) return ''; then the five replacements, the ampersand first.
escapeXml(str) ==
    ReplaceAll(ReplaceAll(ReplaceAll(ReplaceAll(ReplaceAll(str,
        "&", <<"&", "a", "m", "p", ";">>),
        "<", <<"&", "l", "t", ";">>),
        ">", <<"&", "g", "t", ";">>),
        Quote, <<"&", "q", "u", "o", "t", ";">>),
        "'", <<"&", "a", "p", "o", "s", ";">>)

----------------------------------------------------------------------------
\* POST /api/applepay/process and the request processApplePayTransaction builds.
\* A number of the request body is [type |-> "number", num |-> n]; a property
\* the body does not have is None.

JNumber(n) == [type |-> "number", num |-> n]

\* Authorize.Net's limit on invoiceNumber and customer id.
GatewayFieldLimit == 20

\* str.slice(0, n)
Slice(str, n) == SubSeq(str, 1, IF Len(str) < n THEN Len(str) ELSE n)

\* obj[key], None when the object has no such property.
Member(obj, key) ==
    IF obj.type # "object" \/ \A i \in 1..Len(obj.members) : obj.members[i][1] # key
    THEN None
    ELSE Some(obj.members[IndexOf([i \in 1..Len(obj.members) |-> obj.members[i][1]], key)][2])

\* !value, for a property that is absent, a string, a number or an object.
Falsy(opt) ==
    \/ opt = None
    \/ opt[1].type = "string" /\ opt[1].text = <<>>
    \/ opt[1].type = "number" /\ opt[1].num = 0

FieldError(field, constraint, message) ==
    [field |-> field, constraint |-> constraint, message |-> message]

\* !paymentToken
PaymentTokenInvalid(body) == Falsy(body.paymentToken)

\* !amount || typeof amount !== 'number' || amount <= 0
AmountInvalid(body) ==
    Falsy(body.amount) \/ body.amount[1].type # "number" \/ body.amount[1].num <= 0

\* !userId || typeof userId !== 'string' || userId.trim() === ''
UserIdInvalid(body) ==
    Falsy(body.userId) \/ body.userId[1].type # "string" \/ Trim(body.userId[1].text) = <<>>

\* The validationErrors list of the route.
validationErrors(body) ==
    (IF PaymentTokenInvalid(body)
     THEN <<FieldError("paymentToken", "required", "paymentToken is required")>> ELSE <<>>)
    \o (IF AmountInvalid(body)
        THEN <<FieldError("amount", "invalid", "amount must be a positive number")>> ELSE <<>>)
    \o (IF UserIdInvalid(body)
        THEN <<FieldError("userId", "required", "userId is required")>> ELSE <<>>)

ValidationFailed(fields) ==
    [message |-> "Validation failed", type |-> Some("validation"), fields |-> Some(fields)]

\* typeof paymentToken === 'string' ? JSON.parse(paymentToken) : paymentToken
applePayToken(paymentToken) ==
    IF paymentToken.type = "string" THEN JSONParse(paymentToken.text)
    ELSE [ok |-> TRUE, value |-> Some(paymentToken)]

paymentDataKey == <<"p", "a", "y", "m", "e", "n", "t", "D", "a", "t", "a">>

\* What JSON.parse throws, as the catch block of the service passes it on.
TokenSyntaxError ==
    [message |-> "Unexpected token in JSON", response |-> None, authorizeNetError |-> None]

RECURSIVE Digits(_)
\* The decimal digits of a natural number.
Digits(n) == IF n < 10 THEN <<Ascii[17 + n]>> ELSE Digits(n \div 10) \o <<Ascii[17 + (n % 10)]>>

\* amount.toFixed(2), for a whole number.
ToFixed2(amount) == Digits(amount.num) \o <<".", "0", "0">>

\* What is encoded into dataValue: the paymentData object.
OpaqueSource_dataOnly(paymentData) ==
    IF Member(paymentData, <<"d", "a", "t", "a">>) = None THEN JString(<<>>)
    ELSE Member(paymentData, <<"d", "a", "t", "a">>)[1]

OpaqueSource(paymentData) == paymentData

\* Buffer.from(JSON.stringify(paymentData), 'utf8').toString('base64')
paymentDataValue(paymentData) ==
    Base64Encode(Utf8Encode(JSONStringify(OpaqueSource(paymentData))))

\* orderInfo.orderId || `ORDER-${Date.now()}`
RefId(orderInfo, now) ==
    IF orderInfo.orderId # <<>> THEN orderInfo.orderId ELSE <<"O", "R", "D", "E", "R", "-">> \o now

\* orderInfo.invoiceNumber ? orderInfo.invoiceNumber.slice(0, 20)
\*                         : `INV-${Date.now()}`.slice(0, 20)
InvoiceNumber(orderInfo, now) ==
    IF orderInfo.invoiceNumber # <<>> THEN Slice(orderInfo.invoiceNumber, GatewayFieldLimit)
    ELSE Slice(<<"I", "N", "V", "-">> \o now, GatewayFieldLimit)

\* The customerId computed from userId.
CustomerId(id) ==
    IF id # <<>> /\ Trim(id) # <<>>
    THEN (IF Len(id) <= GatewayFieldLimit THEN id ELSE Slice(id, GatewayFieldLimit))
    ELSE <<>>

OrDefault(str, default) == IF str # <<>> THEN str ELSE default

\* The transactionData object.
transactionDataOf(body, paymentData) ==
    LET orderInfo == body.orderInfo
    IN  [refId          |-> RefId(orderInfo, body.now),
         amount         |-> ToFixed2(body.amount[1]),
         dataDescriptor |-> <<"C", "O", "M", "M", "O", "N", ".", "A", "P", "P", "L", "E", ".", "I", "N", "A", "P", "P", ".", "P", "A", "Y", "M", "E", "N", "T">>,
         dataValue      |-> paymentDataValue(paymentData),
         invoiceNumber  |-> InvoiceNumber(orderInfo, body.now),
         description    |-> OrDefault(orderInfo.description, <<"A", "p", "p", "l", "e", " ", "P", "a", "y", " ", "P", "a", "y", "m", "e", "n", "t">>),
         customerId     |-> CustomerId(body.userId[1].text),
         email          |-> orderInfo.email,
         billingAddress |-> orderInfo.billingAddress]

BillToFields ==
    <<"firstName", "lastName", "company", "address", "city", "state", "zip", "country">>

apiLoginId == <<"l", "o", "g", "i", "n">>

transactionKey == <<"k", "&", "y">>

\* How a value is put into the document.
Inserted_raw(str) == str

Inserted(str) == escapeXml(str)

\* An element of the request: the value it was given and the text put between its tags.
XmlField(tag, value) == [tag |-> tag, value |-> value, text |-> Inserted(value)]

\* createXmlRequest(transactionData): the elements that carry a value, in the
\* order of the document, each with the text put between its tags.
createXmlRequest(transactionData) ==
    << XmlField("name", apiLoginId),
       XmlField("transactionKey", transactionKey),
       XmlField("refId", transactionData.refId),
       XmlField("amount", transactionData.amount),
       XmlField("dataDescriptor", transactionData.dataDescriptor),
       XmlField("dataValue", transactionData.dataValue),
       XmlField("invoiceNumber", transactionData.invoiceNumber),
       XmlField("description", OrDefault(transactionData.description, <<"A", "p", "p", "l", "e", " ", "P", "a", "y", " ", "P", "a", "y", "m", "e", "n", "t">>)),
       XmlField("id", transactionData.customerId),
       XmlField("email", transactionData.email) >>
    \o [i \in 1..Len(BillToFields) |->
          XmlField(BillToFields[i], transactionData.billingAddress[BillToFields[i]])]

\* The route, with the service call it awaits: the requests sent to the gateway
\* and the response given to the caller.
\* What the route answers once the service has returned or thrown r.
RouteAnswer(r) ==
    IF r.threw THEN errorHandler(r.error[1])
    ELSE Json([success |-> TRUE,
               transaction |-> [id           |-> r.value[1].transactionId,
                                authCode     |-> r.value[1].authCode,
                                amount       |-> r.value[1].amount,
                                status       |-> "approved",
                                responseCode |-> r.value[1].responseCode],
               details |-> r.value[1].details])

\* The service's call with the paymentData pd read from the token.
ProcessWithData(body, gateway, pd) ==
    IF Falsy(pd)
    THEN [gateway |-> <<>>, responses |-> <<RouteAnswer(Throw(Enhance(MissingPaymentData)))>>]
    ELSE [gateway   |-> <<createXmlRequest(transactionDataOf(body, pd[1]))>>,
          responses |-> <<RouteAnswer(processApplePayTransaction(
                             [token     |-> "paymentData",
                              transport |-> gateway.transport,
                              content   |-> gateway.content,
                              amount    |-> body.amount[1]]))>>]

\* The service's call with the token as applePayToken read it.
ProcessWithToken(body, gateway, token) ==
    IF ~token.ok
    THEN [gateway |-> <<>>, responses |-> <<RouteAnswer(Throw(Enhance(TokenSyntaxError)))>>]
    ELSE ProcessWithData(body, gateway, Member(token.value[1], paymentDataKey))

ProcessValidated(body, gateway, fields) ==
    IF fields # <<>>
    THEN [gateway |-> <<>>, responses |-> <<errorHandler(ValidationFailed(fields))>>]
    ELSE ProcessWithToken(body, gateway, applePayToken(body.paymentToken[1]))

processRoute(body, gateway) == ProcessValidated(body, gateway, validationErrors(body))

ProcessRoute ==
    /\ txnResult = <<>>
    /\ txnResult' = processRoute(txn.body, txn.gateway)
    /\ Relayed

----------------------------------------------------------------------------
\* The requests POST /api/applepay/process is given.

\* Longest orderId and invoiceNumber a caller supplies.
MaxIdLen == 21

\* Longest description a caller supplies.
MaxTextLen == 3

\* Longest data field of a payment token.
MaxDataLen == 3

\* Date.now(), in decimal.
Now == <<"1", "7", "6", "2", "3", "0", "0", "0", "0", "0", "0", "0", "0">>

UpperId(n) == SubSeq(Ascii, 34, 33 + n)

LowerId(n) == SubSeq(Ascii, 66, 65 + n)

DataChars == <<"A", "é", Quote, Backslash, "/", "+">>

DataText(n) == [i \in 1..n |-> DataChars[((i - 1) % Len(DataChars)) + 1]]

SamplePaymentData(n) ==
    JObject(<< <<<<"v", "e", "r", "s", "i", "o", "n">>, JString(<<"E", "C", "_", "v", "1">>)>>,
               <<<<"d", "a", "t", "a">>, JString(DataText(n))>>,
               <<<<"s", "i", "g", "n", "a", "t", "u", "r", "e">>, JString(<<"M", "I">>)>>,
               <<<<"h", "e", "a", "d", "e", "r">>, JObject(<< <<<<"p", "u", "b", "l", "i", "c", "K", "e", "y", "H", "a", "s", "h">>, JString(<<"x", "=">>)>> >>)>> >>)

DataOnly(n) == JObject(<< <<<<"d", "a", "t", "a">>, JString(DataText(n))>> >>)

Token(paymentData) ==
    JObject(<< <<paymentDataKey, paymentData>>,
               <<<<"t", "r", "a", "n", "s", "a", "c", "t", "i", "o", "n", "I", "d", "e", "n", "t", "i", "f", "i", "e", "r">>, JString(<<"1", "1", "a", "5">>)>> >>)

NoBillingAddress == [f \in {BillToFields[i] : i \in 1..Len(BillToFields)} |-> <<>>]

NoOrderInfo ==
    [orderId |-> <<>>, invoiceNumber |-> <<>>, description |-> <<>>, email |-> <<>>,
     billingAddress |-> NoBillingAddress]

ApprovedContent ==
    [resultCode |-> Some("Ok"), message |-> <<EnvelopeMessages[1]>>,
     responseCode |-> Some("1"), authCode |-> Some("AUTH1"), transId |-> Some("T1"),
     errors |-> <<>>, hasMessages |-> TRUE, hasTransaction |-> TRUE]

GatewayApproves == [transport |-> "answer", content |-> ApprovedContent]

GatewayUnreachable == [transport |-> "network_error", content |-> ApprovedContent]

GatewayRefuses == [transport |-> "refused", content |-> ApprovedContent]

ValidBody ==
    [paymentToken |-> Some(Token(SamplePaymentData(1))),
     amount       |-> Some(JNumber(10)),
     userId       |-> Some(JString(<<"u", "1">>)),
     orderInfo    |-> NoOrderInfo,
     now          |-> Now]

PaymentTokens ==
    { None,
      Some(JString(<<>>)),
      Some(JObject(<<>>)),
      Some(Token(JString(<<>>))),
      Some(Token(JString(<<"a", "b", "c">>))),
      Some(Token(SamplePaymentData(1))),
      Some(JString(JSONStringify(Token(SamplePaymentData(1))))),
      Some(JString(<<"{">>)) }

Amounts == {None, Some(JNumber(0)), Some(JNumber(-1)), Some(JNumber(10)), Some(JString(<<"1", "0">>))}

UserIds ==
    {None, Some(JString(<<>>)), Some(JString(<<" ">>)), Some(JString(<<"u", "1">>)), Some(JNumber(7))}

XmlAlphabet == {"&", "<", ">", Quote, "'", "a", ";"}

XmlTexts == UNION {[1..n -> XmlAlphabet] : n \in 0..MaxTextLen} \cup {<<"&", "a", "m", "p", ";">>, <<"a", "&", "l", "t", ";", "b">>}

\* Bodies that differ in what the route validates, in the reference ids, in
\* the payment data, and in a text that needs escaping.
ProcessBodies ==
    {[ValidBody EXCEPT !.paymentToken = t, !.amount = a, !.userId = u] :
        t \in PaymentTokens, a \in Amounts, u \in UserIds}
    \cup {[ValidBody EXCEPT !.orderInfo.orderId = UpperId(n),
                            !.orderInfo.invoiceNumber = LowerId(m)] :
            n \in 0..MaxIdLen, m \in 0..MaxIdLen}
    \cup {[ValidBody EXCEPT !.paymentToken = Some(Token(pd))] :
            pd \in {SamplePaymentData(n) : n \in 0..MaxDataLen}
                   \cup {DataOnly(n) : n \in 0..MaxDataLen}}
    \cup {[ValidBody EXCEPT !.orderInfo.description = d, !.orderInfo.email = d,
                            !.orderInfo.billingAddress.firstName = d] : d \in XmlTexts}

ProcessRequestsReceived ==
    [body : ProcessBodies, gateway : {GatewayApproves, GatewayUnreachable, GatewayRefuses}]

ProcessInit ==
    /\ ControllerIdle
    /\ txn \in ProcessRequestsReceived
    /\ txnResult = <<>>

ProcessNext == ProcessRoute

ProcessSpec == ProcessInit /\ [][ProcessNext]_vars

----------------------------------------------------------------------------
\* parseXmlResponse on documents whose sections come in either order, with or
\* without the <messages> element the gateway puts inside transactionResponse.

Orders == {"messages first", "transaction first"}

\* <messages><message><code>1</code><description>...</description></message></messages>
NestedMessages ==
    Elem("messages",
         Elem("message",
              Elem("code", <<"1">>)
              \o Elem("description", <<"This transaction has been approved.">>)))

\* A section with more elements put before its closing tag.
WithInside(section, extra) ==
    SubSeq(section, 1, Len(section) - 1) \o extra \o <<section[Len(section)]>>

LaidOutSections(order, messages, transaction) ==
    Elem("createTransactionResponse",
         IF order = "messages first" THEN messages \o transaction
         ELSE transaction \o messages)

\* The document of the layout l.
LaidOut(l) ==
    LaidOutSections(l.order,
        IF l.content.hasMessages THEN MessagesSection(l.content) ELSE <<>>,
        IF ~l.content.hasTransaction THEN <<>>
        ELSE IF l.nested THEN WithInside(TransactionSection(l.content), NestedMessages)
        ELSE TransactionSection(l.content))

Layouts == [content : Contents, order : Orders, nested : BOOLEAN]

ParserInit ==
    /\ ControllerIdle
    /\ txn \in Layouts
    /\ txnResult = <<>>

Parse ==
    /\ txnResult = <<>>
    /\ txnResult' = parseXmlResponse(LaidOut(txn))
    /\ UNCHANGED <<userId, merchantId, configLoaded, applePaySession, isInitiating, wallet,
                   nextId, timers, valPending, procPending, valFired, last, txn>>

ParserNext == Parse

ParserSpec == ParserInit /\ [][ParserNext]_vars

----------------------------------------------------------------------------
\* POST /api/applepay/webhook, behind app.use(express.json()).

\* What express.json() passes to the error middleware for a body that is not
\* the JSON text of an object.
EntityParseFailed ==
    [message |-> "Unexpected end of JSON input",
     name    |-> Some("SyntaxError"),
     type    |-> Some("entity.parse.failed"),
     status  |-> Some(400)]

ParsedBody(parsed) ==
    IF parsed.ok /\ parsed.value[1].type = "object"
    THEN Return(parsed.value[1])
    ELSE Throw(EntityParseFailed)

\* express.json(): req.body is {} for a request without a body, the parsed
\* object for a body that is JSON, and the request ends in the error
\* middleware for any other body.
expressJson(text) ==
    IF text = None THEN Return(JObject(<<>>)) ELSE ParsedBody(JSONParse(text[1]))

eventTypeKey == <<"e", "v", "e", "n", "t", "T", "y", "p", "e">>

\* The cases of the switch over eventType, and what each logs.
KnownEvents ==
    << <<<<"n", "e", "t", ".", "a", "u", "t", "h", "o", "r", "i", "z", "e", ".", "p", "a", "y", "m", "e", "n", "t", ".", "a", "u", "t", "h", "o", "r", "i", "z", "a", "t", "i", "o", "n", ".", "c", "r", "e", "a", "t", "e", "d">>, "Transaction authorized">>,
       <<<<"n", "e", "t", ".", "a", "u", "t", "h", "o", "r", "i", "z", "e", ".", "p", "a", "y", "m", "e", "n", "t", ".", "c", "a", "p", "t", "u", "r", "e", ".", "c", "r", "e", "a", "t", "e", "d">>, "Payment captured">>,
       <<<<"n", "e", "t", ".", "a", "u", "t", "h", "o", "r", "i", "z", "e", ".", "p", "a", "y", "m", "e", "n", "t", ".", "r", "e", "f", "u", "n", "d", ".", "c", "r", "e", "a", "t", "e", "d">>, "Refund created">>,
       <<<<"n", "e", "t", ".", "a", "u", "t", "h", "o", "r", "i", "z", "e", ".", "p", "a", "y", "m", "e", "n", "t", ".", "v", "o", "i", "d", ".", "c", "r", "e", "a", "t", "e", "d">>, "Payment voided">>,
       <<<<"n", "e", "t", ".", "a", "u", "t", "h", "o", "r", "i", "z", "e", ".", "p", "a", "y", "m", "e", "n", "t", ".", "f", "r", "a", "u", "d", ".", "a", "p", "p", "r", "o", "v", "e", "d">>, "Fraud review approved">>,
       <<<<"n", "e", "t", ".", "a", "u", "t", "h", "o", "r", "i", "z", "e", ".", "p", "a", "y", "m", "e", "n", "t", ".", "f", "r", "a", "u", "d", ".", "d", "e", "c", "l", "i", "n", "e", "d">>, "Fraud review declined">> >>

Logged(eventType) ==
    IF \E i \in 1..Len(KnownEvents) : eventType = Some(JString(KnownEvents[i][1]))
    THEN KnownEvents[CHOOSE i \in 1..Len(KnownEvents) :
                        eventType = Some(JString(KnownEvents[i][1]))][2]
    ELSE "Unknown webhook event type"

\* The route, given the parsed body: what it logs and what it answers.
webhookRoute(payload, webhookEventId) ==
    [log       |-> <<Logged(Member(payload, eventTypeKey))>>,
     responses |-> <<Json([success   |-> TRUE,
                           message   |-> "Webhook received and processed",
                           eventType |-> Member(payload, eventTypeKey),
                           eventId   |-> webhookEventId])>>]

\* The request on its way through express.json() to the route or to the error
\* middleware.
WebhookParsed(body, webhookEventId) ==
    IF body.threw
    THEN [log |-> <<>>, responses |-> <<errorHandler(body.error[1])>>]
    ELSE webhookRoute(body.value[1], webhookEventId)

webhook(req) == WebhookParsed(expressJson(req.text), req.eventId)

Webhook ==
    /\ txnResult = <<>>
    /\ txnResult' = webhook(txn)
    /\ Relayed

\* The event types a notification may name: the known ones and another.
EventTypes ==
    {KnownEvents[i][1] : i \in 1..Len(KnownEvents)} \cup {<<"n", "e", "t", ".", "a", "u", "t", "h", "o", "r", "i", "z", "e", ".", "c", "u", "s", "t", "o", "m", "e", "r", ".", "c", "r", "e", "a", "t", "e", "d">>}

EventPayload == JObject(<< <<<<"i", "d">>, JString(<<"T", "1">>)>> >>)

\* Notifications with and without an event type and a payload.
Notifications ==
    {JObject(<<>>), JObject(<< <<<<"p", "a", "y", "l", "o", "a", "d">>, EventPayload>> >>)}
    \cup {JObject(<< <<eventTypeKey, JString(t)>> >>) : t \in EventTypes}
    \cup {JObject(<< <<eventTypeKey, JString(t)>>, <<<<"p", "a", "y", "l", "o", "a", "d">>, EventPayload>> >>) :
             t \in EventTypes}

\* The bodies of the requests: none, a notification, a notification cut short,
\* and a JSON text that is not an object.
WebhookTexts ==
    {None, Some(JSONStringify(JString(<<"p", "i", "n", "g">>)))}
    \cup {Some(JSONStringify(n)) : n \in Notifications}
    \cup {Some(SubSeq(JSONStringify(n), 1, Len(JSONStringify(n)) - 1)) : n \in Notifications}

WebhooksReceived ==
    [text      : WebhookTexts,
     signature : {None, Some("sig")},
     eventId   : {None, Some("evt-1")},
     NODE_ENV  : {None, Some("production")}]

WebhookInit ==
    /\ ControllerIdle
    /\ txn \in WebhooksReceived
    /\ txnResult = <<>>

WebhookNext == Webhook

WebhookSpec == WebhookInit /\ [][WebhookNext]_vars

----------------------------------------------------------------------------
\* Properties of the controller.

ValidatePath == "/api/applepay/validate"

ProcessPath == "/api/applepay/process"

ProcessOps == {"processPayment:" \o a : a \in Answers}

ValidateOps == {"validateMerchant:" \o a : a \in Answers}

HasCall(h, c) == CallsNamed(h, c) # {}

\* The step is a call of initiateApplePay.
InitiateStep == last'.op = "initiateApplePay"

\* C1: when initiateApplePay gets past its guard and its user id check while
\* the controller holds a session, the first thing it does is abort that
\* session, the second is to set the reference to null, and a new session is
\* constructed and stored only after that; whether the abort threw makes no
\* difference to the new attempt; and at every moment the reference is null or
\* designates the one session constructed last.
C1_TearDownBeforeNew ==
    /\ [](applePaySession \in {NULL, nextId - 1})
    /\ [][ (InitiateStep /\ ~isInitiating /\ Trim(userId) # <<>> /\ applePaySession # NULL)
           => LET h   == last'.calls
                  old == applePaySession
              IN  /\ Len(h) >= 2
                  /\ h[1].call = "abort" /\ h[1].sid = old
                  /\ h[2] = Assign(NULL)
                  /\ \A i \in CallsNamed(h, "new ApplePaySession") : i > 2
                  /\ wallet'[old] \notin Live
                  /\ applePaySession' # old
                  /\ Trim(merchantId) # <<>> => HasCall(h, "new ApplePaySession")
                  /\ last'.outcome = "begun" => applePaySession' = nextId
       ]_vars

\* A second attempt has replaced a live session, which the wallet aborted.
C1_Replaced ==
    /\ last.op = "initiateApplePay" /\ last.outcome = "begun"
    /\ last.calls[1] = Call("abort", 1, "ok", NULL)
    /\ wallet[1] = "closed"
    /\ applePaySession = 2

\* The old session was already gone when it was aborted, and the new attempt began.
C1_AbortThrew ==
    /\ last.op = "initiateApplePay" /\ last.outcome = "begun"
    /\ last.calls[1] = Call("abort", 1, "throws", NULL)
    /\ applePaySession = 2

C7_FlagIsCleared == isInitiating ~> ~isInitiating

\* The 2000 ms timer found the flag still set and cleared it.
C7_TimerCleared == last.op = "timeout" /\ last.outcome = "reset" /\ ~isInitiating

TerminalOutcome ==
    \/ last.op \in {"oncancel", "onerror"}
    \/ last.op \in ProcessOps
    \/ last.op \in ValidateOps /\ last.outcome = "failed"
    \/ last.op = "initiateApplePay" /\ last.outcome \in {"begin_failed", "construct_failed"}

Idle == applePaySession = NULL /\ ~isInitiating

\* C8: right after every terminal outcome (payment succeeded or failed,
\* validation failed, oncancel, onerror, begin() or the constructor throwing)
\* the reference is null and isInitiating is false; and from such a state a call
\* of initiateApplePay with a user id and a merchant id constructs a new
\* session, stores it and calls begin() on it.
C8_TerminalIsIdle ==
    /\ [](TerminalOutcome => Idle)
    /\ [][ (InitiateStep /\ Idle /\ Trim(userId) # <<>> /\ Trim(merchantId) # <<>>)
           => LET h == last'.calls
              IN  /\ h[1].call = "new ApplePaySession"
                  /\ h[1].arg = "ok"
                       => /\ h[1].sid = nextId
                          /\ h[2] = Assign(nextId)
                          /\ h[3].call = "begin" /\ h[3].sid = nextId
                  /\ h[1].arg = "ok" /\ h[3].arg = "ok"
                       => applePaySession' = nextId /\ wallet'[nextId] = "active"
       ]_vars

\* The first attempt is over and a second one has begun from the idle state.
C8_NewAttempt ==
    /\ last.op = "initiateApplePay" /\ last.outcome = "begun"
    /\ last.calls[1] = Call("new ApplePaySession", 2, "ok", NULL)
    /\ wallet[1] = "closed" /\ wallet[2] = "active"
    /\ applePaySession = 2

\* C9: every POST /process, in flight or just issued, belongs to a session
\* whose validation callback has fired before.
C9_ProcessAfterValidation ==
    \A s \in procPending \cup Posted(last.calls, ProcessPath) : s \in valFired

\* A POST /process is in flight.
C9_ProcessInFlight ==
    /\ last.op = "onpaymentauthorized"
    /\ last.sid \in procPending /\ last.sid \in valFired

\* What C10 says of one call of initiateApplePay.
FailsFast ==
    LET h == last'.calls
    IN  /\ ~HasCall(h, "fetch")
        /\ ~HasCall(h, "new ApplePaySession")
        /\ ~HasCall(h, "begin")
        /\ UNCHANGED <<valPending, procPending, nextId>>
        /\ Message("error") \in Calls(h)
        /\ ~isInitiating'

\* C10 as stated: every call of initiateApplePay with an empty user id or an
\* empty merchant id issues no request, constructs and begins no session, shows
\* an error and leaves isInitiating false.
C10_AsStated ==
    [][ (InitiateStep /\ (Trim(userId) = <<>> \/ Trim(merchantId) = <<>>)) => FailsFast ]_vars

\* C10, amended: a call of initiateApplePay that is made while isInitiating is
\* false, with an empty user id or an empty merchant id, issues no request,
\* constructs and begins no session, shows an error and leaves isInitiating
\* false.
C10_FailsFast ==
    [][ (InitiateStep /\ ~isInitiating /\ (Trim(userId) = <<>> \/ Trim(merchantId) = <<>>))
        => FailsFast ]_vars

\* A call was refused because no merchant id is configured.
C10_NoMerchantId ==
    /\ last.op = "initiateApplePay" /\ last.outcome = "no_merchant_id"
    /\ Trim(userId) # <<>> /\ merchantId = <<>>
    /\ ~isInitiating


\* The calls of completePayment among h that the wallet accepted with the status.
Completed(h, status) ==
    {i \in CallsNamed(h, "completePayment") : h[i].arg = status}

\* C4: the authorization handler issues exactly one POST /process and the
\* continuation issues none; after a success answer completePayment(STATUS_SUCCESS)
\* has been signalled to the wallet and no failure; after any other answer no
\* success has been signalled and a completePayment(STATUS_FAILURE) that was made
\* precedes the message; either way the reference is null and isInitiating false.
C4_OneProcessThenComplete ==
    /\ last.op = "onpaymentauthorized"
         => /\ Cardinality(CallsNamed(last.calls, "fetch")) = 1
            /\ Posted(last.calls, ProcessPath) = {last.sid}
    /\ last.op \in ProcessOps
         => /\ ~HasCall(last.calls, "fetch")
            /\ Idle
            /\ IF last.op = "processPayment:ok"
               THEN /\ Completed(last.calls, "SUCCESS") # {}
                    /\ Message("success") \in Calls(last.calls)
                    /\ Message("error") \notin Calls(last.calls)
               ELSE /\ Completed(last.calls, "SUCCESS") = {}
                    /\ \A i \in CallsNamed(last.calls, "completePayment") :
                         \A j \in CallsNamed(last.calls, "showStatusMessage") : i < j

\* C5: the validation handler issues exactly one POST /validate and the
\* continuation issues none; after a success answer completeMerchantValidation
\* has been called with the merchant session of that answer; after any other
\* answer it has not been called, the reference is null, isInitiating is false
\* and exactly one error message has been shown.
C5_OneValidateThenComplete ==
    /\ last.op = "onvalidatemerchant"
         => /\ Cardinality(CallsNamed(last.calls, "fetch")) = 1
            /\ Posted(last.calls, ValidatePath) = {last.sid}
    /\ last.op \in ValidateOps
         => /\ ~HasCall(last.calls, "fetch")
            /\ IF last.op = "validateMerchant:ok"
               THEN \E i \in CallsNamed(last.calls, "completeMerchantValidation") :
                        last.calls[i].ms = last.sid
               ELSE /\ ~HasCall(last.calls, "completeMerchantValidation")
                    /\ Idle
                    /\ Cardinality(CallsNamed(last.calls, "showStatusMessage")) = 1
                    /\ Message("error") \in Calls(last.calls)


\* C11: the cancellation callback leaves the session reference null and
\* isInitiating false, and issues no backend request: it makes no fetch call and
\* the sets of /validate and /process calls in flight are what they were.
C11_CancelClearsWithoutBackend ==
    [][last'.op = "oncancel"
       => /\ applePaySession' = NULL
          /\ isInitiating' = FALSE
          /\ ~HasCall(last'.calls, "fetch")
          /\ valPending' = valPending
          /\ procPending' = procPending]_vars

\* A cancellation that arrives while the session is stored, the guard is set
\* and a backend call is in flight.
C11_Cancelled ==
    /\ last.op = "oncancel"
    /\ applePaySession = NULL /\ ~isInitiating
    /\ last.sid \in valPending \cup procPending
    /\ Assign(NULL) \in Calls(last.calls)

----------------------------------------------------------------------------
\* Properties of the translator.

Parsed == parseXmlResponse(Document(txn.content))

\* The gateway answered the request with a 2xx status.
Answered == txn.token = "paymentData" /\ txn.transport = "answer"

Succeeded == txnResult # <<>> /\ ~txnResult.threw /\ txnResult.value[1].success

\* C2: processApplePayTransaction returns a result with success true exactly
\* when the gateway's answer, parsed, has the envelope result code "Ok" and the
\* transaction response code "1"; whenever the envelope result code is anything
\* else, or absent, it throws, whatever the response code is.
C2_SuccessIffOkAndApproved ==
    txnResult # <<>>
    => /\ Succeeded <=> /\ Answered
                        /\ Parsed.messages.resultCode = Some("Ok")
                        /\ Parsed.transactionResponse.responseCode = Some("1")
       /\ Parsed.messages.resultCode # Some("Ok") => txnResult.threw
       /\ ~txnResult.threw => Succeeded

\* Scenario A: Ok, 1, T1, AUTH1.
C2_Approved ==
    /\ Succeeded
    /\ txnResult.value[1].transactionId = Some("T1")
    /\ txnResult.value[1].authCode = Some("AUTH1")
    /\ txnResult.value[1].amount = "10.00"

\* The kind of a failure, as a caller can tell it from the error it receives.
Kind(e) ==
    IF e.authorizeNetError = None THEN "Other"
    ELSE LET keys == DOMAIN e.authorizeNetError[1]
         IN  IF "status" \in keys THEN "Other"
             ELSE IF "resultCode" \in keys THEN "GatewayProtocolError"
             ELSE IF "responseCode" \in keys THEN "GatewayDeclined"
             ELSE "Other"

\* The transaction-level errors the gateway put into its answer.
SentErrors == IF txn.content.hasTransaction THEN txn.content.errors ELSE <<>>

\* C3: when the envelope result code is "Ok" and the response code is not "1",
\* the call throws a declined failure, which differs in kind from the failure
\* thrown for an envelope that is not "Ok", and whose error list is exactly the
\* list of the answer's transaction-level errors, in order, without any of the
\* envelope's messages.
C3_DeclinedCarriesTransactionErrors ==
    (txnResult # <<>> /\ Answered)
    => /\ (Parsed.messages.resultCode = Some("Ok")
           /\ Parsed.transactionResponse.responseCode # Some("1"))
          => /\ txnResult.threw
             /\ Kind(txnResult.error[1]) = "GatewayDeclined"
             /\ txnResult.error[1].message = "Transaction was declined"
             /\ txnResult.error[1].authorizeNetError[1].errors = SentErrors
       /\ Parsed.messages.resultCode # Some("Ok")
          => /\ txnResult.threw
             /\ Kind(txnResult.error[1]) = "GatewayProtocolError"

\* Scenario B: Ok, 2, one error (2, Declined), beside an envelope message.
C3_Declined ==
    /\ txnResult # <<>> /\ Answered /\ txnResult.threw
    /\ txn.content.resultCode = Some("Ok") /\ txn.content.responseCode = Some("2")
    /\ txn.content.hasMessages /\ Len(txn.content.message) = 1
    /\ Kind(txnResult.error[1]) = "GatewayDeclined"
    /\ txnResult.error[1].authorizeNetError[1].errors
         = <<[errorCode |-> "2", errorText |-> "Declined"]>>

----------------------------------------------------------------------------
\* Properties of the merchant validation relay.

AllFiles == {appleMerchantCertPath, appleMerchantKeyPath}

UrlGiven == txn.body.validationURL \notin {None, Some("")}

Responses == IF txnResult = <<>> THEN <<>> ELSE txnResult.responses

IsSuccess(r) == "success" \in DOMAIN r.body /\ r.body.success

IsFailure(r) == "error" \in DOMAIN r.body

\* The tag the relay puts on a failure, None when it puts none.
ApplePayErrorType(r) ==
    IF r.body.error.applePayError = None THEN None
    ELSE IF "type" \in DOMAIN r.body.error.applePayError[1]
    THEN Some(r.body.error.applePayError[1].type)
    ELSE None

\* C12: /validate with an absent or empty validationURL answers once, with
\* status 400 and a ValidationError, having read no file and sent no request.
C12_MissingUrlIsClientFault ==
    (txnResult # <<>> /\ ~UrlGiven)
    => /\ Len(Responses) = 1
       /\ Responses[1].status = 400
       /\ IsFailure(Responses[1])
       /\ Responses[1].body.error.type = "ValidationError"
       /\ txnResult.reads = <<>>
       /\ txnResult.outbound = <<>>
       /\ txnResult.req = "none"

\* Scenario C: the empty validationURL, with both credential files in place.
C12_EmptyUrl ==
    /\ txnResult # <<>>
    /\ txn.body.validationURL = Some("") /\ txn.files = AllFiles
    /\ Responses[1].status = 400
    /\ Responses[1].body.error.details = Some([field |-> "validationURL", constraint |-> "required"])

\* The provider's answer was read to its end before anything else happened,
\* with status 200 and the whole text of the session s as its body.
Delivered(s) ==
    /\ txnResult.events # <<>> /\ txnResult.events[1] = "end"
    /\ txnResult.res[1].statusCode = 200
    /\ txnResult.res[1].data = JSONStringify(s)

\* C13: /validate answers {success: true, merchantSession} exactly when the
\* provider's response has status 200 and a body that is a JSON text, and then
\* merchantSession is the value of that text; every other case (another status,
\* a body that is no JSON text, a connection error, a timeout, an input or file
\* failure) is answered with a failure.
C13_SuccessIffOkAndParsed ==
    \A i \in 1..Len(Responses) :
        /\ IsSuccess(Responses[i]) <=> \E s \in MerchantSessions : Delivered(s)
        /\ IsSuccess(Responses[i]) <=> ~IsFailure(Responses[i])
        /\ \A s \in MerchantSessions :
             Delivered(s) => /\ Responses[i].status = 200
                             /\ Responses[i].body.merchantSession = s

\* A session of two fields, one of them with a character JSON escapes, passed on.
C13_SessionPassedOn ==
    /\ Len(Responses) = 1 /\ IsSuccess(Responses[1])
    /\ Responses[1].body.merchantSession =
         JObject(<< <<<<"e">>, JString(<<"1">>)>>, <<<<"s">>, JString(<<Quote, "x">>)>> >>)

\* C14: when the timeout callback runs first, the request is destroyed and the
\* call is settled as a timeout failure; whatever error or end event follows,
\* the outcome stays the timeout failure, and the call is answered at most
\* once, with that failure.
C14_TimeoutSettlesOnce ==
    txnResult # <<>>
    => /\ Len(Responses) <= 1
       /\ (txnResult.events # <<>> /\ txnResult.events[1] = "timeout")
          => /\ txnResult.req = "destroyed"
             /\ txnResult.promise = [state |-> "rejected", value |-> Some(TimeoutError)]
             /\ \A i \in 1..Len(Responses) :
                    /\ IsFailure(Responses[i])
                    /\ ApplePayErrorType(Responses[i]) = Some("TimeoutError")

\* A timeout followed by the socket's error and by an end event, answered.
C14_TimedOutThenEvents ==
    /\ txnResult # <<>>
    /\ Len(txnResult.events) = 3 /\ txnResult.events[1] = "timeout"
    /\ Len(Responses) = 1
    /\ ApplePayErrorType(Responses[1]) = Some("TimeoutError")

\* The path of the first credential file that cannot be read.
AttemptedPath ==
    IF appleMerchantCertPath \notin txn.files THEN appleMerchantCertPath
    ELSE appleMerchantKeyPath

\* C15: when the certificate or the key cannot be read, /validate answers with
\* a failure tagged CertificateError that carries the path it tried to read,
\* and sends no request to validationURL; no other failure of /validate has
\* that tag or that type.
C15_CertificateErrorCarriesPath ==
    txnResult # <<>>
    => /\ (UrlGiven /\ txn.files # AllFiles)
          => /\ txnResult.outbound = <<>>
             /\ Len(Responses) = 1
             /\ IsFailure(Responses[1])
             /\ ApplePayErrorType(Responses[1]) = Some("CertificateError")
             /\ Responses[1].body.error.applePayError[1].path = AttemptedPath
             /\ txnResult.reads[Len(txnResult.reads)] = AttemptedPath
       /\ \A i \in 1..Len(Responses) :
            (IsFailure(Responses[i]) /\ ~(UrlGiven /\ txn.files # AllFiles))
            => /\ ApplePayErrorType(Responses[i]) # Some("CertificateError")
               /\ Responses[i].body.error.type # "FileError"

\* Scenario D, for the key: the certificate is there, the key is not.
C15_KeyMissing ==
    /\ txnResult # <<>>
    /\ UrlGiven /\ txn.files = {appleMerchantCertPath}
    /\ Responses[1].body.error.type = "FileError"
    /\ Responses[1].body.error.applePayError[1].path = appleMerchantKeyPath

----------------------------------------------------------------------------
\* Properties of POST /api/applepay/process and of the request it sends.

\* The request sent to the gateway, if one was sent.
Sent == txnResult # <<>> /\ txnResult.gateway # <<>>

XmlElement(request, tag) == request[IndexOf([i \in 1..Len(request) |-> request[i].tag], tag)]

\* The payment token of the request body as an object, None if it is none.
TokenGiven ==
    IF txn.body.paymentToken = None THEN None
    ELSE applePayToken(txn.body.paymentToken[1]).value

\* The paymentData object of the token, None if the token has none.
PaymentDataGiven ==
    IF TokenGiven = None THEN None
    ELSE LET pd == Member(TokenGiven[1], paymentDataKey)
         IN  IF pd # None /\ pd[1].type = "object" THEN pd ELSE None

IsPositiveNumber(opt) == opt # None /\ opt[1].type = "number" /\ opt[1].num > 0

IsNonEmptyString(opt) == opt # None /\ opt[1].type = "string" /\ Trim(opt[1].text) # <<>>

\* The fields of the request body that violate the input rules.
Violations ==
    (IF PaymentDataGiven = None THEN {"paymentToken"} ELSE {})
    \cup (IF IsPositiveNumber(txn.body.amount) THEN {} ELSE {"amount"})
    \cup (IF IsNonEmptyString(txn.body.userId) THEN {} ELSE {"userId"})

\* C16: whenever the body violates any of the input rules, /process answers
\* with one ValidationError (status 400) whose field list names exactly the
\* violated fields, and sends nothing to the gateway.
C16_EveryViolationListed ==
    (txnResult # <<>> /\ Violations # {})
    => /\ txnResult.gateway = <<>>
       /\ Len(txnResult.responses) = 1
       /\ txnResult.responses[1].status = 400
       /\ txnResult.responses[1].body.error.type = "ValidationError"
       /\ LET fields == txnResult.responses[1].body.error.details[1].fields
          IN  {fields[i].field : i \in 1..Len(fields)} = Violations

Base64Value(c) == IndexOf(Base64Alphabet, c) - 1

RECURSIVE Base64Decode(_)
\* The bytes a base64 text stands for.
Base64Decode(text) ==
    IF text = <<>> THEN <<>>
    ELSE IF Len(text) = 4
    THEN LET v1 == Base64Value(text[1])
             v2 == Base64Value(text[2])
         IN  IF text[3] = "=" THEN <<v1 * 4 + (v2 \div 16)>>
             ELSE IF text[4] = "="
             THEN <<v1 * 4 + (v2 \div 16), (v2 % 16) * 16 + (Base64Value(text[3]) \div 4)>>
             ELSE <<v1 * 4 + (v2 \div 16),
                    (v2 % 16) * 16 + (Base64Value(text[3]) \div 4),
                    (Base64Value(text[3]) % 4) * 64 + Base64Value(text[4])>>
    ELSE LET half == 4 * ((Len(text) \div 4 + 1) \div 2)
         IN  Base64Decode(SubSeq(text, 1, half)) \o Base64Decode(SubSeq(text, half + 1, Len(text)))

\* The text a sequence of UTF-8 bytes stands for.
Utf8Decode(bytes) ==
    LET starts == SelectSeq([i \in 1..Len(bytes) |-> i],
                            LAMBDA i : bytes[i] < 128 \/ bytes[i] >= 192)
    IN  [k \in 1..Len(starts) |->
           LET b == bytes[starts[k]]
           IN  IF b < 128 THEN FromCharCode(b)
               ELSE FromCharCode((b - 192) * 64 + (bytes[starts[k] + 1] - 128))]

\* What the gateway gets when it decodes a dataValue.
Decoded(dataValue) == JSONParse(Utf8Decode(Base64Decode(dataValue)))

First20(supplied, prefix) ==
    IF supplied # <<>> THEN SubSeq(supplied, 1, IF Len(supplied) < 20 THEN Len(supplied) ELSE 20)
    ELSE prefix \o txn.body.now

\* C18: the refId and the invoiceNumber of the request are the first 20
\* characters of orderInfo.orderId and of orderInfo.invoiceNumber, each cut on
\* its own, or the timestamp fallback, and neither is longer than 20.
C18_BothTruncated ==
    Sent
    => LET refId         == XmlElement(txnResult.gateway[1], "refId").value
           invoiceNumber == XmlElement(txnResult.gateway[1], "invoiceNumber").value
       IN  /\ refId = First20(txn.body.orderInfo.orderId, <<"O", "R", "D", "E", "R", "-">>)
           /\ invoiceNumber = First20(txn.body.orderInfo.invoiceNumber, <<"I", "N", "V", "-">>)
           /\ Len(refId) <= 20
           /\ Len(invoiceNumber) <= 20

Entities ==
    << [char |-> "&", entity |-> <<"&", "a", "m", "p", ";">>],
       [char |-> "<", entity |-> <<"&", "l", "t", ";">>],
       [char |-> ">", entity |-> <<"&", "g", "t", ";">>],
       [char |-> Quote, entity |-> <<"&", "q", "u", "o", "t", ";">>],
       [char |-> "'", entity |-> <<"&", "a", "p", "o", "s", ";">>] >>

\* The entities that start at place i of the text.
EntitiesAt(text, i) ==
    {k \in 1..Len(Entities) :
        /\ i + Len(Entities[k].entity) - 1 <= Len(text)
        /\ SubSeq(text, i, i + Len(Entities[k].entity) - 1) = Entities[k].entity}

\* Place i of the text lies inside an entity that starts before it.
InsideEntity(text, i) ==
    \E j \in 1..(i - 1) : \E k \in EntitiesAt(text, j) : i < j + Len(Entities[k].entity)

\* The text with every entity replaced by its character, in one pass.
Unescape(text) ==
    LET starts == SelectSeq([i \in 1..Len(text) |-> i], LAMBDA i : ~InsideEntity(text, i))
    IN  [n \in 1..Len(starts) |->
           IF EntitiesAt(text, starts[n]) = {} THEN text[starts[n]]
           ELSE Entities[CHOOSE k \in EntitiesAt(text, starts[n]) : TRUE].char]

\* C19: every element of the gateway request carries the escapeXml of its
\* value: a text without a raw < > " or ', in which every & starts one of the
\* five entities, and which unescapes to the value.
C19_EveryFieldEscaped ==
    Sent
    => \A i \in 1..Len(txnResult.gateway[1]) :
         LET text  == txnResult.gateway[1][i].text
             value == txnResult.gateway[1][i].value
         IN  /\ text = escapeXml(value)
             /\ \A k \in 1..Len(text) :
                  /\ text[k] \notin {"<", ">", Quote, "'"}
                  /\ text[k] = "&" => EntitiesAt(text, k) # {}
             /\ Unescape(text) = value

\* A description of an ampersand, a less-than sign and a quote, escaped.
C19_ReservedEscaped ==
    /\ Sent
    /\ XmlElement(txnResult.gateway[1], "description").value = <<"&", "<", Quote>>
    /\ XmlElement(txnResult.gateway[1], "description").text = <<"&", "a", "m", "p", ";", "&", "l", "t", ";", "&", "q", "u", "o", "t", ";">>

----------------------------------------------------------------------------
\* Properties of parseXmlResponse on documents with missing fields.

\* What the document carries of a field of a section it may not have.
Carried(hasSection, opt) == IF hasSection THEN opt ELSE None

SentMessages == IF txn.content.hasMessages THEN txn.content.message ELSE <<>>

NothingParsed ==
    [transactionResponse |->
        [responseCode |-> None, authCode |-> None, transId |-> None, errors |-> None],
     messages |-> [resultCode |-> None, message |-> None]]

----------------------------------------------------------------------------
\* Properties of parseXmlResponse on reordered documents.

\* C21: whichever of the two sections comes first, and whether or not the
\* transactionResponse holds a <messages> element of its own, the result code
\* and the message list parsed are those of the envelope's messages section
\* and the transaction fields are those of the transactionResponse section.
C21_OrderIndependent ==
    txnResult # <<>>
    => /\ txnResult.messages.resultCode
            = Carried(txn.content.hasMessages, txn.content.resultCode)
       /\ OrList(txnResult.messages.message) = SentMessages
       /\ txnResult.transactionResponse.responseCode
            = Carried(txn.content.hasTransaction, txn.content.responseCode)
       /\ txnResult.transactionResponse.authCode
            = Carried(txn.content.hasTransaction, txn.content.authCode)
       /\ txnResult.transactionResponse.transId
            = Carried(txn.content.hasTransaction, txn.content.transId)
       /\ OrList(txnResult.transactionResponse.errors) = SentErrors

----------------------------------------------------------------------------
\* Properties of the error envelope.

\* The call failed for want of a connection: the relay's request to the wallet
\* provider ended in a socket error or in its 10 second timeout, or the request
\* to the gateway was sent and was refused or ran into its 30 second timeout.
ConnectivityFailed ==
    /\ txnResult # <<>>
    /\ IF "gateway" \in DOMAIN txn
       THEN /\ txnResult.gateway # <<>>
            /\ txn.gateway.transport \in {"network_error", "refused"}
       ELSE /\ txnResult.promise.state = "rejected"
            /\ txnResult.promise.value[1] \in {ValidationNetworkError, TimeoutError}

EnvelopeType(r) == r.body.error.type

\* No failure other than one of connectivity is answered as a NetworkError.
OnlyConnectivityIsNetworkError ==
    \A i \in 1..Len(Responses) :
       (IsFailure(Responses[i]) /\ EnvelopeType(Responses[i]) = "NetworkError")
       => ConnectivityFailed

\* C22: a failure is answered with an envelope of type NetworkError exactly
\* when it is a failure of connectivity or a timeout, towards the wallet
\* provider or towards the gateway.
C22_ConnectivityIsNetworkError ==
    \A i \in 1..Len(Responses) :
       IsFailure(Responses[i])
       => (EnvelopeType(Responses[i]) = "NetworkError" <=> ConnectivityFailed)

\* NODE_ENV makes the process run in development mode: it says so, or it is
\* empty or not set.
DevelopmentMode == txn.NODE_ENV \in {None, Some(""), Some("development")}

\* C23: the envelope of a failing request carries a stack exactly when the
\* process runs in development mode; in production and in every other mode no
\* response carries one, whatever the failure.
C23_StackOnlyInDevelopment ==
    \A i \in 1..Len(Responses) :
       /\ IsFailure(Responses[i])
            => (Responses[i].body.error.stack # None <=> DevelopmentMode)
       /\ IsSuccess(Responses[i]) => "stack" \notin DOMAIN Responses[i].body

\* In production mode the relay's request ran into its timeout and the failure
\* has been answered without a stack.
C23_ProductionTimeout ==
    /\ txn.NODE_ENV = Some("production")
    /\ txnResult # <<>>
    /\ txnResult.promise = Reject(Pending, TimeoutError)
    /\ Len(Responses) = 1
    /\ IsFailure(Responses[1])
    /\ Responses[1].body.error.stack = None

\* C24: whatever the request, the webhook answers it once and with status 200.
C24_WebhookAlways200 ==
    txnResult # <<>>
    => /\ Len(txnResult.responses) = 1
       /\ txnResult.responses[1].status = 200

----------------------------------------------------------------------------
\* Properties of the controller when a session is replaced, cancelled or
\* errored while one of its backend calls is in flight.

\* The step runs the continuation of processPayment, of validateMerchant.
ProcessAnswerStep == last'.op \in ProcessOps

ValidateAnswerStep == last'.op \in ValidateOps

\* The controller holds a session other than the one the answered request
\* belongs to.
HoldsAnother == applePaySession # NULL /\ applePaySession # last'.sid

\* C25: the answer to a /process request makes the controller call
\* completePayment only on the session whose authorization issued the request,
\* and leaves the reference to any other session in place.
C25_AnswerGoesToItsSession ==
    [][ProcessAnswerStep
       => /\ \A i \in CallsNamed(last'.calls, "completePayment") :
                last'.calls[i].sid = last'.sid
          /\ HoldsAnother => applePaySession' = applePaySession]_vars

\* C26: the answer to a /validate request is applied only to the session whose
\* validation callback issued the request: its merchant session is passed to
\* no other session, and its failure neither aborts another session nor clears
\* the reference to one.
C26_ValidationGoesToItsSession ==
    [][ValidateAnswerStep
       => /\ \A i \in CallsNamed(last'.calls, "completeMerchantValidation") :
                last'.calls[i].sid = last'.calls[i].ms
          /\ \A i \in CallsNamed(last'.calls, "abort") : last'.calls[i].sid = last'.sid
          /\ HoldsAnother => applePaySession' = applePaySession]_vars

\* C27: after a success answer to a /process request the controller has
\* called completePayment(STATUS_FAILURE) on no session and has shown no
\* "Payment failed" message.
C27_ApprovedIsNeverFailed ==
    last.op = "processPayment:ok"
    => /\ \A i \in CallsNamed(last.calls, "completePayment") :
             last.calls[i].arg \notin {"FAILURE", "FAILURE throws"}
       /\ Message("error") \notin Calls(last.calls)

\* The attempt that set isInitiating, when it is set: the one begun last.
FlagOwner == nextId - 1

\* C28: the timer armed by one attempt clears the isInitiating flag of that
\* attempt only: when it fires while the flag is set by a later attempt, the
\* flag stays set.
C28_TimerClearsOwnFlagOnly ==
    [][(last'.op = "timeout" /\ isInitiating /\ last'.sid # FlagOwner)
       => isInitiating']_vars

\* C29: a validation, cancellation or error callback of a session other than
\* the one the controller holds leaves the reference, the isInitiating flag
\* and the backend calls in flight as they are.
C29_OldCallbacksChangeNothing ==
    [][(last'.op \in {"onvalidatemerchant", "oncancel", "onerror"} /\ HoldsAnother)
       => /\ applePaySession' = applePaySession
          /\ isInitiating' = isInitiating
          /\ valPending' = valPending
          /\ procPending' = procPending]_vars

\* C30: a call of initiateApplePay made with an empty user id or an empty
\* merchant id leaves the session reference as it is, calls abort on no
\* session and leaves every session of the wallet in its state.
C30_RejectedLeavesSession ==
    [][(InitiateStep /\ (Trim(userId) = <<>> \/ Trim(merchantId) = <<>>))
       => /\ applePaySession' = applePaySession
          /\ ~HasCall(last'.calls, "abort")
          /\ wallet' = wallet]_vars

\* A call was refused for its empty user id while the controller held a live
\* session.
C30_RefusedWithSession ==
    /\ last.op = "initiateApplePay" /\ last.outcome = "no_user_id"
    /\ userId = <<>>
    /\ applePaySession # NULL
    /\ wallet[applePaySession] \in Live
    /\ last.calls = <<Message("error")>>

====
